---- MODULE Spec2Model ----
(***************************************************************************)
(* Authentication core of the food-classification backend:                *)
(*   Backend/App/models/user.py            the account table              *)
(*   Backend/App/services/auth_service.py  token service, session guard   *)
(*   Backend/App/routers/auth.py           the account endpoints          *)
(*   Backend/App/models/food_log.py        the food tables                *)
(*   Backend/App/routers/food.py           the food endpoints             *)
(* Time is counted in minutes.  A JWT is a record of its payload and its  *)
(* signature; a bcrypt hash is a record of its salt and the salted digest.*)
(***************************************************************************)
EXTENDS Integers, Sequences, FiniteSets, TLC

VARIABLES
    users,      \* the users table: a sequence of rows, users[i].id = i
    tokens,     \* tokens handed to clients: [token, iat, ttl], ttl as asked for (None or Some(d))
    now,        \* the clock (datetime.utcnow), in minutes
    pending,    \* requests between two of their steps: a register between its checks
                \* and its insert, a food request inside update_daily_summary
    resp,       \* the last request and the response it got
    food_logs,  \* the food_logs table: a set of rows with distinct ids
    daily_summaries, \* the daily_calorie_summary table: a set of rows with distinct ids
    uploads     \* the number of files in app/uploads

vars == <<users, tokens, now, pending, resp, food_logs, daily_summaries, uploads>>

---------------------------------------------------------------------------
(* Bounds of the model *)

MaxUsers == 2
MaxTokens == 2
MaxTime == 30
MaxClients == 2
MaxTokenTime == 32
MaxLogs == 2
MaxDays == 1
MaxFiles == 3
MaxWeekDays == 7

(* Program constants *)

ACCESS_TOKEN_EXPIRE_MINUTES == 30
REFRESH_TOKEN_EXPIRE_MINUTES == 10080  \* timedelta(days=7)
SECRET_KEY == "your-secret-key-change-this-in-production"
HTTP_200_OK == 200
HTTP_400_BAD_REQUEST == 400
HTTP_401_UNAUTHORIZED == 401
HTTP_500_INTERNAL_SERVER_ERROR == 500
MIN_PASSWORD_LENGTH == 8
BCRYPT_MAX_BYTES == 72

(* Inputs *)

Usernames == {"amy", "bob"}
Emails == {"a@x.com", "b@x.com"}
Passwords == {"Secret123!", "hunter2"}
Salts == {"s1"}
OtherKey == "attacker-key"
Clients == 1..MaxClients

\* Optional[T]: None is the empty tuple, a value v is <<v>>
None == <<>>
Some(v) == <<v>>

\* the optional fields of UserCreate, with its defaults
UserCreateDefaults ==
    [full_name |-> None, age |-> None, weight |-> None, height |-> None,
     activity_level |-> Some("moderate"), daily_calorie_goal |-> Some(2000)]

ProfileFields == DOMAIN UserCreateDefaults

\* request bodies used by the main specification
RegisterProfiles == {UserCreateDefaults}
UpdateProfiles == {UserCreateDefaults}

---------------------------------------------------------------------------
(* models/user.py: password verifier *)

\* the bytes of a password bcrypt hashes: the first 72
Truncated(password) ==
    IF Len(password) > BCRYPT_MAX_BYTES
    THEN SubSeq(password, 1, BCRYPT_MAX_BYTES)
    ELSE password

\* bcrypt.hashpw(password, salt)
hashpw(password, salt) == [salt |-> salt, digest |-> <<salt, Truncated(password)>>]

\* bcrypt.checkpw(password, hashed): re-hash with the salt of the stored hash
checkpw(password, hashed) == hashpw(password, hashed.salt) = hashed

\* User.verify_password
verify_password(user, password) == checkpw(password, user.hashed_password)

\* User.set_password, with the salt bcrypt.gensalt() drew
set_password(user, password, salt) ==
    [user EXCEPT !.hashed_password = hashpw(password, salt)]

\* db.query(User).filter(User.username == username).first()
RowsByUsername(rows, username) ==
    {i \in 1..Len(rows) : rows[i].username = username}

RowsByEmail(rows, email) ==
    {i \in 1..Len(rows) : rows[i].email = email}

Min(S) == CHOOSE i \in S : \A j \in S : i <= j

\* a users table declared without unique=True
NoUniqueConstraints(rows, username, email) == TRUE

\* the unique=True constraints of User.username and User.email, as the
\* store enforces them when a row is inserted
UniqueConstraintsAllow(rows, username, email) ==
    /\ RowsByUsername(rows, username) = {}
    /\ RowsByEmail(rows, email) = {}

---------------------------------------------------------------------------
(* services/auth_service.py: token service *)

\* HMAC of a payload under a key
Sign(payload, key) == [key |-> key, msg |-> payload, alt |-> 0]

\* jwt.encode
jwt_encode(payload, key) == [form |-> "jws", payload |-> payload, sig |-> Sign(payload, key)]

\* a token that is not three base64 segments
Garbage == [form |-> "garbage", payload |-> [x |-> 0], sig |-> Sign([x |-> 0], OtherKey)]

\* one character of the signature segment changed
TamperSignature(token) == [token EXCEPT !.sig.alt = 1]

\* the payload segment replaced, the signature kept
TamperPayload(token, payload) == [token EXCEPT !.payload = payload]

\* jwt.decode with options={"verify_signature": False}
jwt_decode_unverified(token, key, t) ==
    IF token.form # "jws" THEN [ok |-> FALSE, error |-> "DecodeError"]
    ELSE IF "exp" \in DOMAIN token.payload /\ token.payload.exp <= t
        THEN [ok |-> FALSE, error |-> "ExpiredSignatureError"]
    ELSE [ok |-> TRUE, payload |-> token.payload]

\* jwt.decode(token, key, algorithms=[ALGORITHM]) at clock time t:
\* the payload, or the InvalidTokenError subclass it raises.  The exp claim
\* is checked only when present, and the token is expired once exp <= t.
jwt_decode(token, key, t) ==
    IF token.form # "jws" THEN [ok |-> FALSE, error |-> "DecodeError"]
    ELSE IF token.sig # Sign(token.payload, key)
        THEN [ok |-> FALSE, error |-> "InvalidSignatureError"]
    ELSE IF "exp" \in DOMAIN token.payload /\ token.payload.exp <= t
        THEN [ok |-> FALSE, error |-> "ExpiredSignatureError"]
    ELSE [ok |-> TRUE, payload |-> token.payload]

\* an except clause that names DecodeError alone
OnlyDecodeError == {"DecodeError"}

\* the exceptions verify_token catches: InvalidTokenError and its subclasses
InvalidTokenError == {"DecodeError", "InvalidSignatureError", "ExpiredSignatureError"}

\* create_access_token that drops expires_delta and always takes the default
create_access_token_default_ttl(data, expires_delta, t) ==
    jwt_encode([k \in DOMAIN data \cup {"exp"} |->
                    IF k = "exp" THEN t + ACCESS_TOKEN_EXPIRE_MINUTES ELSE data[k]],
               SECRET_KEY)

\* create_access_token that stamps the time of issue as the expiry
create_access_token_no_ttl(data, expires_delta, t) ==
    jwt_encode([k \in DOMAIN data \cup {"exp"} |-> IF k = "exp" THEN t ELSE data[k]],
               SECRET_KEY)

\* AuthService.create_access_token at clock time t; expires_delta is None or
\* Some(d).  "if expires_delta:" is a truth test: a zero timedelta takes the
\* default branch like None.
create_access_token(data, expires_delta, t) ==
    LET expire == IF expires_delta # None /\ expires_delta[1] # 0
                  THEN t + expires_delta[1]
                  ELSE t + ACCESS_TOKEN_EXPIRE_MINUTES
        to_encode == [k \in DOMAIN data \cup {"exp"} |->
                        IF k = "exp" THEN expire ELSE data[k]]
    IN jwt_encode(to_encode, SECRET_KEY)

\* the single Invalid result of verify_token (Python None)
Invalid == [invalid |-> TRUE]

\* an exception escaping verify_token
Raised(error) == [raised |-> error]

\* verify_token of a service that accepts access tokens only
verify_token_access_only(token, t) ==
    LET decoded == jwt_decode(token, SECRET_KEY, t)
    IN  IF ~decoded.ok
        THEN IF decoded.error \in InvalidTokenError THEN Invalid ELSE Raised(decoded.error)
        ELSE IF "sub" \notin DOMAIN decoded.payload \/ "user_id" \notin DOMAIN decoded.payload
                \/ "type" \in DOMAIN decoded.payload
             THEN Invalid
             ELSE [username |-> decoded.payload.sub, user_id |-> decoded.payload.user_id]

\* AuthService.verify_token at clock time t
verify_token(token, t) ==
    LET decoded == jwt_decode(token, SECRET_KEY, t)
    IN  IF ~decoded.ok
        THEN IF decoded.error \in InvalidTokenError THEN Invalid ELSE Raised(decoded.error)
        ELSE IF "sub" \notin DOMAIN decoded.payload \/ "user_id" \notin DOMAIN decoded.payload
             THEN Invalid
             ELSE [username |-> decoded.payload.sub, user_id |-> decoded.payload.user_id]

\* AuthService.create_user_tokens at clock time t
create_user_tokens(user, t) ==
    [access_token |->
        create_access_token([sub |-> user.username, user_id |-> user.id],
                            Some(ACCESS_TOKEN_EXPIRE_MINUTES), t),
     refresh_token |->
        create_access_token([sub |-> user.username, user_id |-> user.id,
                             type |-> "refresh"],
                            Some(REFRESH_TOKEN_EXPIRE_MINUTES), t),
     token_type |-> "bearer",
     expires_in |-> ACCESS_TOKEN_EXPIRE_MINUTES * 60]

---------------------------------------------------------------------------
(* services/auth_service.py: session guard *)

credentials_exception ==
    [status |-> HTTP_401_UNAUTHORIZED, detail |-> "Could not validate credentials",
     headers |-> "WWW-Authenticate: Bearer"]

\* get_current_user without the is_active test
get_current_user_ignoring_active(token, rows, t) ==
    LET token_data == verify_token(token, t)
    IN  IF token_data = Invalid
        THEN [ok |-> FALSE, error |-> credentials_exception]
        ELSE LET found == RowsByUsername(rows, token_data.username)
             IN  IF found = {}
                 THEN [ok |-> FALSE, error |-> credentials_exception]
                 ELSE [ok |-> TRUE, user |-> Min(found)]

\* get_current_user that tells a deactivated account from a bad token
get_current_user_inactive_user(token, rows, t) ==
    LET token_data == verify_token(token, t)
    IN  IF token_data = Invalid
        THEN [ok |-> FALSE, error |-> credentials_exception]
        ELSE LET found == RowsByUsername(rows, token_data.username)
             IN  IF found = {}
                 THEN [ok |-> FALSE, error |-> credentials_exception]
                 ELSE IF ~rows[Min(found)].is_active
                 THEN [ok |-> FALSE,
                       error |-> [status |-> HTTP_400_BAD_REQUEST, detail |-> "Inactive user",
                                  headers |-> ""]]
                 ELSE [ok |-> TRUE, user |-> Min(found)]

\* get_current_user that hands the handler the first row of the table
get_current_user_first_row(token, rows, t) ==
    LET token_data == verify_token(token, t)
    IN  IF token_data = Invalid
        THEN [ok |-> FALSE, error |-> credentials_exception]
        ELSE LET found == RowsByUsername(rows, token_data.username)
             IN  IF found = {} \/ ~rows[Min(found)].is_active
                 THEN [ok |-> FALSE, error |-> credentials_exception]
                 ELSE [ok |-> TRUE, user |-> 1]

\* get_current_user of a service that keeps one session per account: a
\* token is refused once a later token was issued for its subject
get_current_user_single_session(token, rows, t) ==
    LET token_data == verify_token(token, t)
    IN  IF token_data = Invalid
        THEN [ok |-> FALSE, error |-> credentials_exception]
        ELSE LET found == RowsByUsername(rows, token_data.username)
             IN  IF \/ found = {}
                    \/ ~rows[Min(found)].is_active
                    \/ \E later \in tokens :
                          /\ later.token.payload.sub = token_data.username
                          /\ later.token.payload.exp > token.payload.exp
                 THEN [ok |-> FALSE, error |-> credentials_exception]
                 ELSE [ok |-> TRUE, user |-> Min(found)]

\* AuthService.get_current_user: [ok |-> TRUE, user |-> index of the row] or
\* [ok |-> FALSE, error |-> credentials_exception]
get_current_user(token, rows, t) ==
    LET token_data == verify_token(token, t)
    IN  IF token_data = Invalid
        THEN [ok |-> FALSE, error |-> credentials_exception]
        ELSE LET found == RowsByUsername(rows, token_data.username)
             IN  IF found = {} \/ ~rows[Min(found)].is_active
                 THEN [ok |-> FALSE, error |-> credentials_exception]
                 ELSE [ok |-> TRUE, user |-> Min(found)]

---------------------------------------------------------------------------
(* The requests clients can send *)

\* oauth2_scheme: the Authorization header is None or Some(token)
oauth2_scheme(authorization) ==
    IF authorization = None
    THEN [ok |-> FALSE,
          error |-> [status |-> HTTP_401_UNAUTHORIZED, detail |-> "Not authenticated",
                     headers |-> "WWW-Authenticate: Bearer"]]
    ELSE [ok |-> TRUE, token |-> authorization[1]]

\* the dependency chain of every protected route: oauth2_scheme, then get_current_user
Authenticate(authorization, rows, t) ==
    LET bearer == oauth2_scheme(authorization)
    IN  IF ~bearer.ok THEN bearer ELSE get_current_user(bearer.token, rows, t)

IssuedTokens == {i.token : i \in tokens}

\* a token an attacker builds without the signing key: the payload of a
\* token it has seen, signed with a key of its own
Forged(token) == jwt_encode(token.payload, OtherKey)

\* Authorization headers the main specification sends
Bearers ==
    {None, Some(Garbage)}
    \cup {Some(tok) : tok \in IssuedTokens}
    \cup {Some(Forged(tok)) : tok \in IssuedTokens}

\* UserResponse: the public profile, never the hash
UserResponse(user) ==
    [k \in DOMAIN user \ {"hashed_password"} |-> user[k]]

Response(op, req, status, detail, headers, body) ==
    [op |-> op, req |-> req, status |-> status, detail |-> detail,
     headers |-> headers, body |-> body]

\* an HTTPException raised by a dependency or a handler
Rejected(op, req, error) ==
    Response(op, req, error.status, error.detail, error.headers, None)

HTTPException(status, detail) == [status |-> status, detail |-> detail, headers |-> ""]

\* what a client keeps of a token it was given
Keep(token, ttl) ==
    IF Cardinality(tokens) < MaxTokens
    THEN tokens \cup {[token |-> token, iat |-> now, ttl |-> ttl]}
    ELSE tokens

---------------------------------------------------------------------------
(* routers/auth.py: register *)

\* register_user with the username check alone
RegisterChecks_username_only(rows, user_data) ==
    IF RowsByUsername(rows, user_data.username) # {}
    THEN Some(HTTPException(HTTP_400_BAD_REQUEST, "Username already registered"))
    ELSE None

\* the two existence checks of register_user: None, or the HTTPException raised
RegisterChecks(rows, user_data) ==
    IF RowsByUsername(rows, user_data.username) # {}
    THEN Some(HTTPException(HTTP_400_BAD_REQUEST, "Username already registered"))
    ELSE IF RowsByEmail(rows, user_data.email) # {}
    THEN Some(HTTPException(HTTP_400_BAD_REQUEST, "Email already registered"))
    ELSE None

\* User(...) and set_password: the row register_user adds
NewUser(rows, user_data, salt) ==
    set_password(
        [id |-> Len(rows) + 1,
         username |-> user_data.username,
         email |-> user_data.email,
         hashed_password |-> hashpw("", salt),
         full_name |-> user_data.full_name,
         age |-> user_data.age,
         weight |-> user_data.weight,
         height |-> user_data.height,
         activity_level |-> user_data.activity_level,
         daily_calorie_goal |-> user_data.daily_calorie_goal,
         is_active |-> TRUE],
        user_data.password, salt)

\* db.add, db.commit, db.refresh of register_user and its except branch
RegisterInsert(user_data, salt) ==
    IF UniqueConstraintsAllow(users, user_data.username, user_data.email)
    THEN /\ users' = Append(users, NewUser(users, user_data, salt))
         /\ resp' = Response("register", user_data, HTTP_200_OK, "", "",
                             Some(UserResponse(NewUser(users, user_data, salt))))
    ELSE /\ users' = users
         /\ resp' = Rejected("register", user_data,
                             HTTPException(HTTP_500_INTERNAL_SERVER_ERROR,
                                           "Failed to create user: IntegrityError"))

\* the table of the model holds at most MaxUsers rows
Room(user_data) ==
    UniqueConstraintsAllow(users, user_data.username, user_data.email)
        => Len(users) < MaxUsers

\* POST /auth/register, run without another request in between
register_user(user_data, salt) ==
    /\ Room(user_data)
    /\ IF RegisterChecks(users, user_data) # None
       THEN /\ resp' = Rejected("register", user_data, RegisterChecks(users, user_data)[1])
            /\ users' = users
       ELSE RegisterInsert(user_data, salt)
    /\ UNCHANGED <<uploads, food_logs, daily_summaries, tokens, now, pending>>

\* POST /auth/register of client c, up to the end of its existence checks
register_check(c, user_data) ==
    /\ pending[c] = None
    /\ IF RegisterChecks(users, user_data) # None
       THEN /\ resp' = Rejected("register", user_data, RegisterChecks(users, user_data)[1])
            /\ pending' = pending
       ELSE /\ pending' = [pending EXCEPT ![c] = Some(user_data)]
            /\ resp' = resp
    /\ UNCHANGED <<uploads, food_logs, daily_summaries, users, tokens, now>>

\* the rest of that request: the insert and the response
register_insert(c, salt) ==
    /\ pending[c] # None
    /\ Room(pending[c][1])
    /\ RegisterInsert(pending[c][1], salt)
    /\ pending' = [pending EXCEPT ![c] = None]
    /\ UNCHANGED <<uploads, food_logs, daily_summaries, tokens, now>>

---------------------------------------------------------------------------
(* routers/auth.py: login *)

\* login_user telling an unknown username from a wrong password
LoginChecks_user_not_found(rows, found, password) ==
    IF found = {}
    THEN Some([status |-> HTTP_401_UNAUTHORIZED, detail |-> "User not found",
               headers |-> "WWW-Authenticate: Bearer"])
    ELSE IF ~verify_password(rows[Min(found)], password)
    THEN Some([status |-> HTTP_401_UNAUTHORIZED,
               detail |-> "Incorrect username or password",
               headers |-> "WWW-Authenticate: Bearer"])
    ELSE IF ~rows[Min(found)].is_active
    THEN Some(HTTPException(HTTP_400_BAD_REQUEST, "Inactive user"))
    ELSE None

\* login_user without the is_active test
LoginChecks_no_active_check(rows, found, password) ==
    IF found = {} \/ ~verify_password(rows[Min(found)], password)
    THEN Some([status |-> HTTP_401_UNAUTHORIZED,
               detail |-> "Incorrect username or password",
               headers |-> "WWW-Authenticate: Bearer"])
    ELSE None

\* the two checks of login_user on the row found for the username (found is
\* the set of matching rows): None, or the HTTPException raised
LoginChecks(rows, found, password) ==
    IF found = {} \/ ~verify_password(rows[Min(found)], password)
    THEN Some([status |-> HTTP_401_UNAUTHORIZED,
               detail |-> "Incorrect username or password",
               headers |-> "WWW-Authenticate: Bearer"])
    ELSE IF ~rows[Min(found)].is_active
    THEN Some(HTTPException(HTTP_400_BAD_REQUEST, "Inactive user"))
    ELSE None

\* the response of login_user at clock time t
LoginResponse(rows, username, password, t) ==
    LET req == [username |-> username, password |-> password]
        found == RowsByUsername(rows, username)
        failed == LoginChecks(rows, found, password)
        user == rows[Min(found)]
        access_token ==
            create_access_token([sub |-> user.username, user_id |-> user.id], None, t)
    IN  IF failed # None
        THEN Rejected("login", req, failed[1])
        ELSE Response("login", req, HTTP_200_OK, "", "",
                      Some([access_token |-> access_token, token_type |-> "bearer",
                            user_id |-> user.id, username |-> user.username]))

\* POST /auth/login
login_user(username, password) ==
    /\ resp' = LoginResponse(users, username, password, now)
    /\ tokens' = IF resp'.status = HTTP_200_OK
                 THEN Keep(resp'.body[1].access_token, None)
                 ELSE tokens
    /\ UNCHANGED <<uploads, food_logs, daily_summaries, users, now, pending>>

---------------------------------------------------------------------------
(* routers/auth.py: the protected routes *)

\* GET /auth/me
get_me(authorization) ==
    LET req == [authorization |-> authorization]
        auth == Authenticate(authorization, users, now)
    IN  /\ IF ~auth.ok
           THEN resp' = Rejected("me", req, auth.error)
           ELSE resp' = Response("me", req, HTTP_200_OK, "", "",
                                 Some(UserResponse(users[auth.user])))
        /\ UNCHANGED <<uploads, food_logs, daily_summaries, users, tokens, now, pending>>

\* update_user_profile holding the password to the minimum length of
\* change_password
ApplyUpdate_min_length(user, user_update, salt) ==
    LET profiled ==
            [k \in DOMAIN user |->
                IF k \in ProfileFields /\ user_update[k] # None
                THEN user_update[k] ELSE user[k]]
    IN  IF Len(user_update.password) >= MIN_PASSWORD_LENGTH
        THEN set_password(profiled, user_update.password, salt)
        ELSE profiled

\* the field assignments of update_user_profile
ApplyUpdate(user, user_update, salt) ==
    LET profiled ==
            [k \in DOMAIN user |->
                IF k \in ProfileFields /\ user_update[k] # None
                THEN user_update[k] ELSE user[k]]
    IN  IF user_update.password # ""
        THEN set_password(profiled, user_update.password, salt)
        ELSE profiled

\* PUT /auth/me
update_user_profile(authorization, user_update, salt) ==
    LET req == [authorization |-> authorization, user_update |-> user_update]
        auth == Authenticate(authorization, users, now)
    IN  /\ IF ~auth.ok
           THEN /\ resp' = Rejected("update", req, auth.error)
                /\ users' = users
           ELSE /\ users' = [users EXCEPT
                                ![auth.user] = ApplyUpdate(users[auth.user], user_update, salt)]
                /\ resp' = Response("update", req, HTTP_200_OK, "", "",
                                    Some(UserResponse(users'[auth.user])))
        /\ UNCHANGED <<uploads, food_logs, daily_summaries, tokens, now, pending>>

\* the three checks of change_password: None, or the HTTPException raised
PasswordChecks(user, current_password, new_password) ==
    IF ~verify_password(user, current_password)
    THEN Some(HTTPException(HTTP_400_BAD_REQUEST, "Current password is incorrect"))
    ELSE IF verify_password(user, new_password)
    THEN Some(HTTPException(HTTP_400_BAD_REQUEST,
                            "New password must be different from current password"))
    ELSE IF Len(new_password) < MIN_PASSWORD_LENGTH
    THEN Some(HTTPException(HTTP_400_BAD_REQUEST,
                            "New password must be at least 8 characters long"))
    ELSE None

\* PUT /auth/change-password
change_password(authorization, current_password, new_password, salt) ==
    LET req == [authorization |-> authorization, current_password |-> current_password,
                new_password |-> new_password]
        auth == Authenticate(authorization, users, now)
        failed == PasswordChecks(users[auth.user], current_password, new_password)
    IN  /\ IF ~auth.ok
           THEN /\ resp' = Rejected("change-password", req, auth.error)
                /\ users' = users
           ELSE IF failed # None
           THEN /\ resp' = Rejected("change-password", req, failed[1])
                /\ users' = users
           ELSE /\ users' = [users EXCEPT
                                ![auth.user] = set_password(users[auth.user], new_password, salt)]
                /\ resp' = Response("change-password", req, HTTP_200_OK,
                                    "Password updated successfully", "", None)
        /\ UNCHANGED <<uploads, food_logs, daily_summaries, tokens, now, pending>>

\* refresh_access_token that signs the token for the first row of the table
refresh_access_token_first_row(authorization) ==
    LET req == [authorization |-> authorization]
        auth == Authenticate(authorization, users, now)
        current_user == users[1]
        access_token ==
            create_access_token([sub |-> current_user.username, user_id |-> current_user.id],
                                None, now)
    IN  /\ IF ~auth.ok
           THEN /\ resp' = Rejected("refresh-token", req, auth.error)
                /\ tokens' = tokens
           ELSE /\ resp' = Response("refresh-token", req, HTTP_200_OK, "", "",
                        Some([access_token |-> access_token, token_type |-> "bearer",
                              user_id |-> current_user.id,
                              username |-> current_user.username]))
                /\ tokens' = Keep(access_token, None)
        /\ UNCHANGED <<uploads, food_logs, daily_summaries, users, now, pending>>

\* POST /auth/refresh-token
refresh_access_token(authorization) ==
    LET req == [authorization |-> authorization]
        auth == Authenticate(authorization, users, now)
        current_user == users[auth.user]
        access_token ==
            create_access_token([sub |-> current_user.username, user_id |-> current_user.id],
                                None, now)
    IN  /\ IF ~auth.ok
           THEN /\ resp' = Rejected("refresh-token", req, auth.error)
                /\ tokens' = tokens
           ELSE /\ resp' = Response("refresh-token", req, HTTP_200_OK, "", "",
                        Some([access_token |-> access_token, token_type |-> "bearer",
                              user_id |-> current_user.id,
                              username |-> current_user.username]))
                /\ tokens' = Keep(access_token, None)
        /\ UNCHANGED <<uploads, food_logs, daily_summaries, users, now, pending>>

\* delete_user_account that also deletes the food logs the account owns
delete_user_account_purging(authorization) ==
    LET req == [authorization |-> authorization]
        auth == Authenticate(authorization, users, now)
    IN  /\ IF ~auth.ok
           THEN /\ resp' = Rejected("delete-account", req, auth.error)
                /\ users' = users
                /\ food_logs' = food_logs
           ELSE /\ users' = [users EXCEPT ![auth.user].is_active = FALSE]
                /\ food_logs' = {log \in food_logs : log.user_id # users[auth.user].id}
                /\ resp' = Response("delete-account", req, HTTP_200_OK,
                                    "Account deactivated successfully", "", None)
        /\ UNCHANGED <<uploads, daily_summaries, tokens, now, pending>>

\* delete_user_account that deletes the row (db.delete)
delete_user_account_hard(authorization) ==
    LET req == [authorization |-> authorization]
        auth == Authenticate(authorization, users, now)
    IN  /\ IF ~auth.ok
           THEN /\ resp' = Rejected("delete-account", req, auth.error)
                /\ users' = users
           ELSE /\ users' = [j \in 1..(Len(users) - 1) |->
                                IF j < auth.user THEN users[j] ELSE users[j + 1]]
                /\ resp' = Response("delete-account", req, HTTP_200_OK,
                                    "Account deactivated successfully", "", None)
        /\ UNCHANGED <<uploads, food_logs, daily_summaries, tokens, now, pending>>

\* DELETE /auth/delete-account
delete_user_account(authorization) ==
    LET req == [authorization |-> authorization]
        auth == Authenticate(authorization, users, now)
    IN  /\ IF ~auth.ok
           THEN /\ resp' = Rejected("delete-account", req, auth.error)
                /\ users' = users
           ELSE /\ users' = [users EXCEPT ![auth.user].is_active = FALSE]
                /\ resp' = Response("delete-account", req, HTTP_200_OK,
                                    "Account deactivated successfully", "", None)
        /\ UNCHANGED <<uploads, food_logs, daily_summaries, tokens, now, pending>>

---------------------------------------------------------------------------
(* routers/auth.py: the except branches.  db.commit() raises when the     *)
(* store fails; e is str(e) of the exception.                              *)

\* db.rollback() and the HTTPException of an except branch: the tables are
\* as before the request, the detail is the route's message and str(e)
ExceptBranch(op, req, message, e) ==
    /\ users' = users
    /\ resp' = Rejected(op, [request |-> req, raised |-> e],
                        HTTPException(HTTP_500_INTERNAL_SERVER_ERROR, message \o ": " \o e))
    /\ UNCHANGED <<uploads, food_logs, daily_summaries, tokens, now, pending>>

\* POST /auth/register when db.commit() raises
register_user_commit_raises(user_data, e) ==
    /\ RegisterChecks(users, user_data) = None
    /\ ExceptBranch("register", user_data, "Failed to create user", e)

\* PUT /auth/me when db.commit() raises
update_user_profile_commit_raises(authorization, user_update, e) ==
    /\ Authenticate(authorization, users, now).ok
    /\ ExceptBranch("update", [authorization |-> authorization, user_update |-> user_update],
                    "Failed to update profile", e)

\* PUT /auth/change-password when db.commit() raises
change_password_commit_raises(authorization, current_password, new_password, e) ==
    /\ Authenticate(authorization, users, now).ok
    /\ PasswordChecks(users[Authenticate(authorization, users, now).user],
                      current_password, new_password) = None
    /\ ExceptBranch("change-password",
                    [authorization |-> authorization, current_password |-> current_password,
                     new_password |-> new_password],
                    "Failed to update password", e)

\* DELETE /auth/delete-account when db.commit() raises
delete_user_account_commit_raises(authorization, e) ==
    /\ Authenticate(authorization, users, now).ok
    /\ ExceptBranch("delete-account", [authorization |-> authorization],
                    "Failed to deactivate account", e)

---------------------------------------------------------------------------
(* models/food_log.py and routers/food.py: the food tables and the routes *)
(* that write them                                                        *)

\* date.today() at clock time t: the day number
today(t) == t \div 1440

\* the id the store gives a new row of a table
NextId(rows) ==
    IF rows = {} THEN 1
    ELSE (CHOOSE i \in {r.id : r \in rows} : \A r \in rows : r.id <= i) + 1

\* meal_type.lower().strip() on the meal types clients send
lower_strip(meal_type) ==
    CASE meal_type = "Lunch " -> "lunch"
      [] meal_type = " SNACK" -> "snack"
      [] OTHER -> meal_type

valid_meal_types == {"breakfast", "lunch", "dinner", "snack"}

\* file.content_type.startswith('image/')
startswith_image(content_type) ==
    Len(content_type) >= 6 /\ SubSeq(content_type, 1, 6) = "image/"

\* the fallback of extract_calories_from_string
DEFAULT_CALORIES == 250

\* extract_calories_from_string, given the numbers re.findall finds in the
\* calorie string, in order
extract_calories_from_string(numbers) ==
    IF Len(numbers) >= 2 THEN (numbers[1] + numbers[2]) \div 2
    ELSE IF Len(numbers) = 1 THEN numbers[1]
    ELSE DEFAULT_CALORIES

RECURSIVE SumCalories(_)
\* sum(log.calories for log in rows)
SumCalories(rows) ==
    IF rows = {} THEN 0
    ELSE LET log == CHOOSE r \in rows : TRUE
         IN  log.calories + SumCalories(rows \ {log})

\* update_daily_summary: the summary table after the totals of (user_id,
\* target_date) were recomputed from the logs; .first() is the row of
\* lowest id
update_daily_summary(logs, summaries, user_id, target_date) ==
    LET existing == {r \in summaries : r.user_id = user_id /\ r.date = target_date}
        summary ==
            IF existing = {}
            THEN [id |-> NextId(summaries), user_id |-> user_id, date |-> target_date,
                  breakfast_calories |-> 0, lunch_calories |-> 0, dinner_calories |-> 0,
                  snack_calories |-> 0, total_calories |-> 0]
            ELSE CHOOSE r \in existing : \A q \in existing : r.id <= q.id
        meal_calories == {log \in logs : log.user_id = user_id /\ log.date = target_date}
        cals(m) == SumCalories({log \in meal_calories : log.meal_type = m})
    IN  (summaries \ {summary}) \cup
        {[summary EXCEPT !.breakfast_calories = cals("breakfast"),
                         !.lunch_calories = cals("lunch"),
                         !.dinner_calories = cals("dinner"),
                         !.snack_calories = cals("snack"),
                         !.total_calories = cals("breakfast") + cals("lunch")
                                            + cals("dinner") + cals("snack")]}

\* the checks of classify_food with the file type looked at before the
\* model
ClassifyChecks_file_first(meal_type, content_type, ready) ==
    IF meal_type \notin valid_meal_types
    THEN Some(HTTPException(HTTP_400_BAD_REQUEST,
            "Invalid meal_type. Must be one of: ['breakfast', 'lunch', 'dinner', 'snack']"))
    ELSE IF content_type = None \/ ~startswith_image(content_type[1])
    THEN Some(HTTPException(HTTP_400_BAD_REQUEST, "File must be an image"))
    ELSE IF ~ready
    THEN Some(HTTPException(503, "ML model not available"))
    ELSE None

\* the checks of classify_food before the image is saved: None, or the
\* HTTPException raised
ClassifyChecks(meal_type, content_type, ready) ==
    IF meal_type \notin valid_meal_types
    THEN Some(HTTPException(HTTP_400_BAD_REQUEST,
            "Invalid meal_type. Must be one of: ['breakfast', 'lunch', 'dinner', 'snack']"))
    ELSE IF ~ready
    THEN Some(HTTPException(503, "ML model not available"))
    ELSE IF content_type = None \/ ~startswith_image(content_type[1])
    THEN Some(HTTPException(HTTP_400_BAD_REQUEST, "File must be an image"))
    ELSE None

\* the food_logs table of the model holds at most MaxLogs rows
LogRoom(inserts) == inserts => Cardinality(food_logs) < MaxLogs

\* app/uploads holds at most MaxFiles files in the model
FileRoom(writes) == writes => uploads < MaxFiles

\* POST /food/classify; form holds meal_type, content_type, save_to_db, the
\* state of the model (ready) and what predict_food returns for the image
classify_food(authorization, form) ==
    LET req == [authorization |-> authorization, form |-> form]
        auth == Authenticate(authorization, users, now)
        current_user == users[auth.user]
        meal_type == lower_strip(form.meal_type)
        failed == ClassifyChecks(meal_type, form.content_type, form.ready)
        prediction_result == form.prediction
        calories_numeric == extract_calories_from_string(prediction_result.calories)
        food_log == [id |-> NextId(food_logs), user_id |-> current_user.id,
                     date |-> today(now), meal_type |-> meal_type,
                     food_name |-> prediction_result.food_name,
                     calories |-> calories_numeric]
        passes == auth.ok /\ failed = None /\ "error" \notin DOMAIN prediction_result
    IN  /\ LogRoom(passes /\ form.save_to_db)
        /\ FileRoom(auth.ok /\ failed = None)
        /\ uploads' = IF auth.ok /\ failed = None THEN uploads + 1 ELSE uploads
        /\ IF ~auth.ok
           THEN /\ resp' = Rejected("classify", req, auth.error)
                /\ UNCHANGED <<food_logs, daily_summaries>>
           ELSE IF failed # None
           THEN /\ resp' = Rejected("classify", req, failed[1])
                /\ UNCHANGED <<food_logs, daily_summaries>>
           ELSE IF "error" \in DOMAIN prediction_result
           THEN /\ resp' = Rejected("classify", req,
                                    HTTPException(HTTP_500_INTERNAL_SERVER_ERROR,
                                                  "Classification failed: "
                                                      \o prediction_result.error))
                /\ UNCHANGED <<food_logs, daily_summaries>>
           ELSE /\ IF form.save_to_db
                   THEN /\ food_logs' = food_logs \cup {food_log}
                        /\ daily_summaries' =
                              update_daily_summary(food_logs', daily_summaries,
                                                   current_user.id, today(now))
                   ELSE UNCHANGED <<food_logs, daily_summaries>>
                /\ resp' = Response("classify", req, HTTP_200_OK, "", "",
                        Some([food_log_id |-> IF form.save_to_db THEN Some(food_log.id)
                                              ELSE None,
                              food_name |-> prediction_result.food_name,
                              calories_numeric |-> calories_numeric,
                              meal_type |-> meal_type,
                              saved_to_db |-> form.save_to_db,
                              user_id |-> current_user.id]))
        /\ UNCHANGED <<users, tokens, now, pending>>

\* delete_food_entry looking the entry up by its id alone
delete_food_entry_any_owner(authorization, food_log_id) ==
    LET req == [authorization |-> authorization, food_log_id |-> food_log_id]
        auth == Authenticate(authorization, users, now)
        current_user == users[auth.user]
        found == {log \in food_logs : log.id = food_log_id}
        food_log == CHOOSE log \in found : TRUE
    IN  /\ IF ~auth.ok
           THEN /\ resp' = Rejected("delete-food-entry", req, auth.error)
                /\ UNCHANGED <<food_logs, daily_summaries>>
           ELSE IF found = {}
           THEN /\ resp' = Rejected("delete-food-entry", req,
                                    HTTPException(404, "Food entry not found or you don't have permission to delete it"))
                /\ UNCHANGED <<food_logs, daily_summaries>>
           ELSE /\ food_logs' = food_logs \ {food_log}
                /\ daily_summaries' =
                      update_daily_summary(food_logs', daily_summaries,
                                           food_log.user_id, food_log.date)
                /\ resp' = Response("delete-food-entry", req, HTTP_200_OK,
                                    "Food entry deleted successfully", "", None)
        /\ UNCHANGED <<uploads, users, tokens, now, pending>>

\* DELETE /food/food-entry/{food_log_id}
delete_food_entry(authorization, food_log_id) ==
    LET req == [authorization |-> authorization, food_log_id |-> food_log_id]
        auth == Authenticate(authorization, users, now)
        current_user == users[auth.user]
        found == {log \in food_logs :
                    log.id = food_log_id /\ log.user_id = current_user.id}
        food_log == CHOOSE log \in found : TRUE
    IN  /\ IF ~auth.ok
           THEN /\ resp' = Rejected("delete-food-entry", req, auth.error)
                /\ UNCHANGED <<food_logs, daily_summaries>>
           ELSE IF found = {}
           THEN /\ resp' = Rejected("delete-food-entry", req,
                                    HTTPException(404, "Food entry not found or you don't have permission to delete it"))
                /\ UNCHANGED <<food_logs, daily_summaries>>
           ELSE /\ food_logs' = food_logs \ {food_log}
                /\ daily_summaries' =
                      update_daily_summary(food_logs', daily_summaries,
                                           current_user.id, food_log.date)
                /\ resp' = Response("delete-food-entry", req, HTTP_200_OK,
                                    "Food entry deleted successfully", "", None)
        /\ UNCHANGED <<uploads, users, tokens, now, pending>>

\* POST /food/classify with save_to_db when the store fails inside
\* update_daily_summary: the log is committed already; update_daily_summary
\* prints the error and rolls its own changes back, and the request is
\* answered as if nothing had happened
classify_food_summary_raises(authorization, form) ==
    LET req == [authorization |-> authorization, form |-> form]
        auth == Authenticate(authorization, users, now)
        current_user == users[auth.user]
        meal_type == lower_strip(form.meal_type)
        failed == ClassifyChecks(meal_type, form.content_type, form.ready)
        prediction_result == form.prediction
        calories_numeric == extract_calories_from_string(prediction_result.calories)
        food_log == [id |-> NextId(food_logs), user_id |-> current_user.id,
                     date |-> today(now), meal_type |-> meal_type,
                     food_name |-> prediction_result.food_name,
                     calories |-> calories_numeric]
    IN  /\ auth.ok /\ failed = None /\ "error" \notin DOMAIN prediction_result
        /\ form.save_to_db
        /\ LogRoom(TRUE)
        /\ FileRoom(TRUE)
        /\ uploads' = uploads + 1
        /\ food_logs' = food_logs \cup {food_log}
        /\ daily_summaries' = daily_summaries
        /\ resp' = Response("classify", req, HTTP_200_OK, "", "",
                Some([food_log_id |-> Some(food_log.id),
                      food_name |-> prediction_result.food_name,
                      calories_numeric |-> calories_numeric,
                      meal_type |-> meal_type,
                      saved_to_db |-> form.save_to_db,
                      user_id |-> current_user.id]))
        /\ UNCHANGED <<users, tokens, now, pending>>

\* DELETE /food/food-entry/{food_log_id} when the store fails inside
\* update_daily_summary: the delete is committed already and the error is
\* swallowed
delete_food_entry_summary_raises(authorization, food_log_id) ==
    LET req == [authorization |-> authorization, food_log_id |-> food_log_id]
        auth == Authenticate(authorization, users, now)
        current_user == users[auth.user]
        found == {log \in food_logs :
                    log.id = food_log_id /\ log.user_id = current_user.id}
        food_log == CHOOSE log \in found : TRUE
    IN  /\ auth.ok /\ found # {}
        /\ food_logs' = food_logs \ {food_log}
        /\ daily_summaries' = daily_summaries
        /\ resp' = Response("delete-food-entry", req, HTTP_200_OK,
                            "Food entry deleted successfully", "", None)
        /\ UNCHANGED <<uploads, users, tokens, now, pending>>

\* the first query of update_daily_summary: None, or Some(id) of the row
\* .first() returns
summary_first(summaries, user_id, target_date) ==
    LET existing == {r \in summaries : r.user_id = user_id /\ r.date = target_date}
    IN  IF existing = {} THEN None
        ELSE Some(CHOOSE i \in {r.id : r \in existing} :
                      \A r \in existing : i <= r.id)

\* the rest of update_daily_summary, from the db.add of the new row when
\* the first query found none to the commit; first is what that query found
summary_commit(logs, summaries, user_id, target_date, first) ==
    LET summary ==
            IF first = None
            THEN [id |-> NextId(summaries), user_id |-> user_id, date |-> target_date,
                  breakfast_calories |-> 0, lunch_calories |-> 0, dinner_calories |-> 0,
                  snack_calories |-> 0, total_calories |-> 0]
            ELSE CHOOSE r \in summaries : r.id = first[1]
        meal_calories == {log \in logs : log.user_id = user_id /\ log.date = target_date}
        cals(m) == SumCalories({log \in meal_calories : log.meal_type = m})
    IN  (summaries \ {summary}) \cup
        {[summary EXCEPT !.breakfast_calories = cals("breakfast"),
                         !.lunch_calories = cals("lunch"),
                         !.dinner_calories = cals("dinner"),
                         !.snack_calories = cals("snack"),
                         !.total_calories = cals("breakfast") + cals("lunch")
                                            + cals("dinner") + cals("snack")]}

\* POST /food/classify with save_to_db of client c, a request that passes
\* the guard and the checks, up to the end of the first query of
\* update_daily_summary: the log is committed
classify_food_first(c, authorization, form) ==
    LET req == [authorization |-> authorization, form |-> form]
        auth == Authenticate(authorization, users, now)
        current_user == users[auth.user]
        meal_type == lower_strip(form.meal_type)
        failed == ClassifyChecks(meal_type, form.content_type, form.ready)
        prediction_result == form.prediction
        calories_numeric == extract_calories_from_string(prediction_result.calories)
        food_log == [id |-> NextId(food_logs), user_id |-> current_user.id,
                     date |-> today(now), meal_type |-> meal_type,
                     food_name |-> prediction_result.food_name,
                     calories |-> calories_numeric]
    IN  /\ pending[c] = None
        /\ auth.ok /\ failed = None /\ "error" \notin DOMAIN prediction_result
        /\ form.save_to_db
        /\ LogRoom(TRUE)
        /\ FileRoom(TRUE)
        /\ uploads' = uploads + 1
        /\ food_logs' = food_logs \cup {food_log}
        /\ pending' = [pending EXCEPT ![c] =
              Some([user_id |-> current_user.id, target_date |-> today(now),
                    first |-> summary_first(daily_summaries, current_user.id, today(now)),
                    resp |-> Response("classify", req, HTTP_200_OK, "", "",
                        Some([food_log_id |-> Some(food_log.id),
                              food_name |-> prediction_result.food_name,
                              calories_numeric |-> calories_numeric,
                              meal_type |-> meal_type,
                              saved_to_db |-> form.save_to_db,
                              user_id |-> current_user.id]))])]
        /\ UNCHANGED <<users, tokens, now, resp, daily_summaries>>

\* DELETE /food/food-entry/{food_log_id} of client c, a request that finds
\* its entry, up to the end of the first query of update_daily_summary: the
\* delete is committed
delete_food_entry_first(c, authorization, food_log_id) ==
    LET req == [authorization |-> authorization, food_log_id |-> food_log_id]
        auth == Authenticate(authorization, users, now)
        current_user == users[auth.user]
        found == {log \in food_logs :
                    log.id = food_log_id /\ log.user_id = current_user.id}
        food_log == CHOOSE log \in found : TRUE
    IN  /\ pending[c] = None
        /\ auth.ok /\ found # {}
        /\ food_logs' = food_logs \ {food_log}
        /\ pending' = [pending EXCEPT ![c] =
              Some([user_id |-> current_user.id, target_date |-> food_log.date,
                    first |-> summary_first(daily_summaries, current_user.id,
                                            food_log.date),
                    resp |-> Response("delete-food-entry", req, HTTP_200_OK,
                                      "Food entry deleted successfully", "", None)])]
        /\ UNCHANGED <<uploads, users, tokens, now, resp, daily_summaries>>

\* the rest of the request of client c: update_daily_summary from its
\* second query to its commit, and the response
update_daily_summary_rest(c) ==
    /\ pending[c] # None
    /\ daily_summaries' =
          summary_commit(food_logs, daily_summaries, pending[c][1].user_id,
                         pending[c][1].target_date, pending[c][1].first)
    /\ resp' = pending[c][1].resp
    /\ pending' = [pending EXCEPT ![c] = None]
    /\ UNCHANGED <<uploads, users, tokens, now, food_logs>>

\* datetime.strptime(target_date, "%Y-%m-%d").date(): Some(day), or None
\* for the ValueError; day 0 is 1970-01-01, and %m and %d take one digit too
strptime(target_date) ==
    CASE target_date \in {"1970-01-01", "1970-1-1"} -> Some(0)
      [] target_date \in {"1970-01-02", "1970-1-2"} -> Some(1)
      [] target_date \in {"1970-01-03", "1970-1-3"} -> Some(2)
      [] OTHER -> None

\* date_obj.isoformat()
isoformat(day) ==
    CASE day = 0 -> "1970-01-01"
      [] day = 1 -> "1970-01-02"
      [] day = 2 -> "1970-01-03"
      [] OTHER -> "later"

\* the key of a meal type in the meals of the daily summary
meal_key(meal_type) == IF meal_type = "snack" THEN "snacks" ELSE meal_type

\* the daily summary body without the user filter on the food logs
DailySummaryBody_all_users(current_user, date_obj) ==
    LET existing == {r \in daily_summaries :
                        r.user_id = current_user.id /\ r.date = date_obj}
        summary == CHOOSE r \in existing : \A q \in existing : r.id <= q.id
        logs == {log \in food_logs : log.date = date_obj}
        field(f) == IF existing = {} THEN 0 ELSE summary[f]
    IN  [date |-> isoformat(date_obj),
         user_id |-> current_user.id,
         username |-> current_user.username,
         meals |-> [k \in {"breakfast", "lunch", "dinner", "snacks"} |->
                        {log \in logs : meal_key(log.meal_type) = k}],
         summary |-> [breakfast_calories |-> field("breakfast_calories"),
                      lunch_calories |-> field("lunch_calories"),
                      dinner_calories |-> field("dinner_calories"),
                      snack_calories |-> field("snack_calories"),
                      total_calories |-> field("total_calories")],
         user_info |-> [daily_calorie_goal |-> current_user.daily_calorie_goal,
                        activity_level |-> current_user.activity_level]]

\* the body of GET /food/daily-calorie-summary for a row of users and a
\* date; the entries of meals are given as the log rows they are made from.
\* total_calories_llm, the text the Gemini service returns, is left out.
DailySummaryBody(current_user, date_obj) ==
    LET existing == {r \in daily_summaries :
                        r.user_id = current_user.id /\ r.date = date_obj}
        summary == CHOOSE r \in existing : \A q \in existing : r.id <= q.id
        logs == {log \in food_logs :
                    log.user_id = current_user.id /\ log.date = date_obj}
        field(f) == IF existing = {} THEN 0 ELSE summary[f]
    IN  [date |-> isoformat(date_obj),
         user_id |-> current_user.id,
         username |-> current_user.username,
         meals |-> [k \in {"breakfast", "lunch", "dinner", "snacks"} |->
                        {log \in logs : meal_key(log.meal_type) = k}],
         summary |-> [breakfast_calories |-> field("breakfast_calories"),
                      lunch_calories |-> field("lunch_calories"),
                      dinner_calories |-> field("dinner_calories"),
                      snack_calories |-> field("snack_calories"),
                      total_calories |-> field("total_calories")],
         user_info |-> [daily_calorie_goal |-> current_user.daily_calorie_goal,
                        activity_level |-> current_user.activity_level]]

\* GET /food/daily-calorie-summary behind a guard that writes: it
\* deactivates the account a refused token names
get_daily_calorie_summary_lockout(authorization, target_date) ==
    LET req == [authorization |-> authorization, target_date |-> target_date]
        auth == Authenticate(authorization, users, now)
        given == target_date # None /\ target_date[1] # ""
        parsed == strptime(target_date[1])
        date_obj == IF given THEN parsed[1] ELSE today(now)
    IN  /\ IF ~auth.ok
           THEN /\ resp' = Rejected("daily-calorie-summary", req, auth.error)
                /\ users' = [i \in 1..Len(users) |->
                                IF users[i].username = authorization[1].payload.sub
                                THEN [users[i] EXCEPT !.is_active = FALSE]
                                ELSE users[i]]
           ELSE /\ users' = users
                /\ IF given /\ parsed = None
                   THEN resp' = Rejected("daily-calorie-summary", req,
                                         HTTPException(HTTP_400_BAD_REQUEST,
                                                       "Invalid date format. Use YYYY-MM-DD"))
                   ELSE resp' = Response("daily-calorie-summary", req, HTTP_200_OK, "", "",
                                         Some(DailySummaryBody(users[auth.user], date_obj)))
        /\ UNCHANGED <<uploads, food_logs, daily_summaries, tokens, now, pending>>

\* GET /food/daily-calorie-summary; target_date is None or Some(string)
get_daily_calorie_summary(authorization, target_date) ==
    LET req == [authorization |-> authorization, target_date |-> target_date]
        auth == Authenticate(authorization, users, now)
        given == target_date # None /\ target_date[1] # ""
        parsed == strptime(target_date[1])
        date_obj == IF given THEN parsed[1] ELSE today(now)
    IN  /\ IF ~auth.ok
           THEN resp' = Rejected("daily-calorie-summary", req, auth.error)
           ELSE IF given /\ parsed = None
           THEN resp' = Rejected("daily-calorie-summary", req,
                                 HTTPException(HTTP_400_BAD_REQUEST,
                                               "Invalid date format. Use YYYY-MM-DD"))
           ELSE resp' = Response("daily-calorie-summary", req, HTTP_200_OK, "", "",
                                 Some(DailySummaryBody(users[auth.user], date_obj)))
        /\ UNCHANGED <<uploads, food_logs, daily_summaries, users, tokens, now, pending>>

---------------------------------------------------------------------------
(* The clock *)

ClockSteps == {ACCESS_TOKEN_EXPIRE_MINUTES \div 2}

Tick(d) ==
    /\ now + d <= MaxTime
    /\ now' = now + d
    /\ UNCHANGED <<uploads, food_logs, daily_summaries, users, tokens, pending, resp>>

---------------------------------------------------------------------------
(* The service, one request at a time *)

NoResponse == Response("none", None, 0, "", "", None)

Init ==
    /\ users = <<>>
    /\ tokens = {}
    /\ now = 0
    /\ pending = [c \in Clients |-> None]
    /\ resp = NoResponse
    /\ food_logs = {}
    /\ daily_summaries = {}
    /\ uploads = 0

UserCreate(username, email, password, profile) ==
    [k \in {"username", "email", "password"} \cup ProfileFields |->
        CASE k = "username" -> username
          [] k = "email" -> email
          [] k = "password" -> password
          [] OTHER -> profile[k]]

RegisterBodies ==
    {UserCreate(u, e, "Secret123!", f) : u \in Usernames, e \in Emails,
                                         f \in RegisterProfiles}

\* PUT /auth/me bodies: without and with a password
UpdateBodies ==
    {UserCreate("amy", "a@x.com", p, f) : p \in {"", "hunter2"}, f \in UpdateProfiles}

\* the requests of Spec leave the stored passwords alone; SpecRace changes them
SessionUpdateBodies == {user_update \in UpdateBodies : user_update.password = ""}
SessionNewPasswords == {"hunter2"}

Next ==
    \/ \E user_data \in RegisterBodies, salt \in Salts : register_user(user_data, salt)
    \/ \E u \in Usernames, p \in Passwords : login_user(u, p)
    \/ \E a \in Bearers : get_me(a)
    \/ \E a \in Bearers, user_update \in SessionUpdateBodies, salt \in Salts :
            update_user_profile(a, user_update, salt)
    \/ \E a \in Bearers, cur \in Passwords, new \in SessionNewPasswords, salt \in Salts :
            change_password(a, cur, new, salt)
    \/ \E a \in Bearers : refresh_access_token(a)
    \/ \E a \in Bearers : delete_user_account(a)
    \/ \E d \in ClockSteps : Tick(d)

Spec == Init /\ [][Next]_vars

---------------------------------------------------------------------------
(* Concurrent registrations: each register request is two steps, its      *)
(* existence checks and its insert, and other requests run in between.    *)

IssuedBearers == {Some(tok) : tok \in IssuedTokens}

NextRace ==
    \/ \E c \in Clients, user_data \in RegisterBodies : register_check(c, user_data)
    \/ \E c \in Clients, salt \in Salts : register_insert(c, salt)
    \/ \E u \in Usernames : login_user(u, "Secret123!")
    \/ \E a \in IssuedBearers, user_update \in UpdateBodies, salt \in Salts :
            update_user_profile(a, user_update, salt)
    \/ \E a \in IssuedBearers, cur \in Passwords, new \in Passwords, salt \in Salts :
            change_password(a, cur, new, salt)
    \/ \E a \in IssuedBearers : delete_user_account(a)

SpecRace == Init /\ [][NextRace]_vars

---------------------------------------------------------------------------
(* The token service alone: tokens are issued, presented and verified     *)
(* while the clock advances minute by minute.                             *)

\* the claims create_access_token is asked to sign
TokenData ==
    {[sub |-> "amy", user_id |-> 7], [sub |-> "amy"], [user_id |-> 7]}

\* the expires_delta arguments: absent, one minute, ACCESS_TOKEN_EXPIRE_MINUTES
TokenDeltas == {None, Some(1), Some(ACCESS_TOKEN_EXPIRE_MINUTES)}

\* what can be presented to verify_token
VerifyInputs ==
    {Garbage}
    \cup IssuedTokens
    \cup {TamperSignature(tok) : tok \in IssuedTokens}
    \cup {Forged(tok) : tok \in IssuedTokens}
    \cup {TamperPayload(tok, [tok.payload EXCEPT !.exp = MaxTokenTime + 1]) :
            tok \in IssuedTokens}

\* a call of create_access_token; the client keeps the token
issue(data, expires_delta) ==
    LET token == create_access_token(data, expires_delta, now)
    IN  /\ tokens' = {[token |-> token, iat |-> now, ttl |-> expires_delta]}
        /\ resp' = Response("issue", [data |-> data, expires_delta |-> expires_delta],
                            0, "", "", Some(token))
        /\ UNCHANGED <<uploads, food_logs, daily_summaries, users, now, pending>>

\* a call of verify_token
verify(token) ==
    /\ resp' = Response("verify", [token |-> token], 0, "", "",
                        Some(verify_token(token, now)))
    /\ UNCHANGED <<uploads, food_logs, daily_summaries, users, tokens, now, pending>>

TickToken ==
    /\ now < MaxTokenTime
    /\ now' = now + 1
    /\ UNCHANGED <<uploads, food_logs, daily_summaries, users, tokens, pending, resp>>

NextToken ==
    \/ \E data \in TokenData, expires_delta \in TokenDeltas : issue(data, expires_delta)
    \/ \E token \in VerifyInputs : verify(token)
    \/ TickToken

SpecToken == Init /\ [][NextToken]_vars

---------------------------------------------------------------------------
(* One account over its life: it registers, logs in, changes its password *)
(* and its profile, refreshes its token and deactivates itself while the  *)
(* clock advances; the guard is shown tokens of every kind.               *)

\* a token the service signed for a username at time 0: the account of
\* that username may not be in the table
Stale(username) ==
    create_access_token([sub |-> username, user_id |-> 1], None, 0)

\* Authorization headers shown to the guard
GuardBearers ==
    {Some(Garbage)} \cup IssuedBearers \cup {Some(Stale(u)) : u \in Usernames}

NextGuard ==
    \/ \E salt \in Salts :
            register_user(UserCreate("amy", "a@x.com", "Secret123!", UserCreateDefaults), salt)
    \/ \E p \in Passwords : login_user("amy", p)
    \/ \E a \in GuardBearers : get_me(a)
    \/ \E a \in IssuedBearers, user_update \in UpdateBodies, salt \in Salts :
            update_user_profile(a, user_update, salt)
    \/ \E a \in IssuedBearers, cur \in Passwords, new \in Passwords, salt \in Salts :
            change_password(a, cur, new, salt)
    \/ \E a \in IssuedBearers : refresh_access_token(a)
    \/ \E a \in IssuedBearers : delete_user_account(a)
    \/ \E d \in ClockSteps : Tick(d)

SpecGuard == Init /\ [][NextGuard]_vars

---------------------------------------------------------------------------
(* Profile updates: PUT /auth/me is sent JSON bodies, which pydantic      *)
(* parses into UserCreate before update_user_profile runs.                *)

\* a JSON body is a function from the keys it holds to null (None) or a
\* value (Some(v)); a key it does not hold is absent
RequiredFields == {"username", "email", "password"}

\* the response FastAPI gives to a body UserCreate does not accept
RequestValidationError ==
    [status |-> 422, detail |-> "Field required", headers |-> ""]

\* UserCreate(**body): a required field absent or null is refused; an
\* optional field that is absent takes its default, one that is null is None
ParseUserCreate(body) ==
    IF \E k \in RequiredFields : k \notin DOMAIN body \/ body[k] = None
    THEN [ok |-> FALSE, error |-> RequestValidationError]
    ELSE [ok |-> TRUE,
          model |-> [k \in RequiredFields \cup ProfileFields |->
                        IF k \in RequiredFields THEN body[k][1]
                        ELSE IF k \in DOMAIN body THEN body[k]
                        ELSE UserCreateDefaults[k]]]

\* PUT /auth/me as the client sends it: the guard, then the body, then
\* update_user_profile
put_me(authorization, body, salt) ==
    LET req == [authorization |-> authorization, body |-> body]
        auth == Authenticate(authorization, users, now)
        parsed == ParseUserCreate(body)
    IN  /\ IF ~auth.ok
           THEN /\ resp' = Rejected("update", req, auth.error)
                /\ users' = users
           ELSE IF ~parsed.ok
           THEN /\ resp' = Rejected("update", req, parsed.error)
                /\ users' = users
           ELSE /\ users' = [users EXCEPT
                                ![auth.user] = ApplyUpdate(users[auth.user], parsed.model, salt)]
                /\ resp' = Response("update", req, HTTP_200_OK, "", "",
                                    Some(UserResponse(users'[auth.user])))
        /\ UNCHANGED <<uploads, food_logs, daily_summaries, tokens, now, pending>>

\* the profile of the account that registers: the defaults, or every field set
StoredProfiles ==
    {UserCreateDefaults,
     [full_name |-> Some("Amy A"), age |-> Some(30), weight |-> Some(70),
      height |-> Some(170), activity_level |-> Some("active"),
      daily_calorie_goal |-> Some(2500)]}

\* the bodies sent to PUT /auth/me: the account's own username and email
\* and an empty password, with age and activity_level absent, null or set;
\* and a body that holds the age alone
JsonBodies ==
    {[age |-> Some(31)]}
    \cup {[username |-> Some("amy"), email |-> Some("a@x.com"), password |-> Some("")]
            @@ a @@ l :
                a \in {<<>>, [age |-> None], [age |-> Some(31)]},
                l \in {<<>>, [activity_level |-> None], [activity_level |-> Some("light")]}}

NextProfile ==
    \/ \E profile \in StoredProfiles, salt \in Salts :
            register_user(UserCreate("amy", "a@x.com", "Secret123!", profile), salt)
    \/ login_user("amy", "Secret123!")
    \/ \E a \in Bearers, body \in JsonBodies, salt \in Salts : put_me(a, body, salt)
    \/ \E a \in Bearers : get_me(a)

SpecProfile == Init /\ [][NextProfile]_vars

---------------------------------------------------------------------------
(* Passwords: one account sets its password at registration, through      *)
(* PUT /auth/me and through PUT /auth/change-password, and logs in.       *)

\* 72 characters, and two passwords of 73 characters that begin with them
Pad72 ==
    "Secret12" \o "Secret12" \o "Secret12" \o "Secret12" \o "Secret12"
        \o "Secret12" \o "Secret12" \o "Secret12" \o "Secret12"
LongA == Pad72 \o "A"
LongB == Pad72 \o "B"

\* the passwords clients send
PolicyPasswords == {"Secret123!", "hunter2", LongA, LongB}

\* the salts bcrypt.gensalt() draws
GenSalts == {"s1", "s2"}

NextPassword ==
    \/ \E p \in {"Secret123!", LongA}, salt \in GenSalts :
            register_user(UserCreate("amy", "a@x.com", p, UserCreateDefaults), salt)
    \/ \E p \in PolicyPasswords : login_user("amy", p)
    \/ \E a \in IssuedBearers, user_update \in UpdateBodies, salt \in GenSalts :
            update_user_profile(a, user_update, salt)
    \/ \E a \in IssuedBearers \cup {Some(Garbage)}, cur \in PolicyPasswords,
          new \in PolicyPasswords, salt \in GenSalts :
            change_password(a, cur, new, salt)

SpecPassword == Init /\ [][NextPassword]_vars

---------------------------------------------------------------------------
(* Two accounts that log meals: the account routes and the food routes    *)

\* a classify request: a lunch photo for which predict_food returns pizza
\* with the calorie string "~300-350 kcal", given here as its numbers
GoodForm ==
    [meal_type |-> "Lunch ", content_type |-> Some("image/png"), save_to_db |-> TRUE,
     ready |-> TRUE, prediction |-> [food_name |-> "pizza", calories |-> <<300, 350>>]]

NextFood ==
    \/ \E salt \in Salts :
            \/ register_user(UserCreate("amy", "a@x.com", "Secret123!", UserCreateDefaults), salt)
            \/ register_user(UserCreate("bob", "b@x.com", "Secret123!", UserCreateDefaults), salt)
    \/ \E u \in Usernames : login_user(u, "Secret123!")
    \/ \E a \in IssuedBearers, salt \in Salts :
            update_user_profile(a, UserCreate("amy", "a@x.com", "hunter2", UserCreateDefaults),
                                salt)
    \/ \E a \in IssuedBearers, salt \in Salts :
            change_password(a, "hunter2", "Secret123!", salt)
    \/ \E a \in IssuedBearers : delete_user_account(a)
    \/ \E a \in IssuedBearers : classify_food(a, GoodForm)
    \/ \E a \in IssuedBearers, food_log_id \in 1..MaxLogs : delete_food_entry(a, food_log_id)

SpecFood == Init /\ [][NextFood]_vars

---------------------------------------------------------------------------
(* The account routes over a store whose commits can fail *)

\* str(e) of what db.commit() raises when the store fails
StoreErrors ==
    {"(sqlite3.OperationalError) database is locked [SQL: UPDATE users SET is_active=?]"}

NextCommit ==
    \/ \E user_data \in RegisterBodies, salt \in Salts : register_user(user_data, salt)
    \/ \E u \in Usernames : login_user(u, "Secret123!")
    \/ \E a \in IssuedBearers, user_update \in UpdateBodies, salt \in Salts :
            update_user_profile(a, user_update, salt)
    \/ \E a \in IssuedBearers : delete_user_account(a)
    \/ \E user_data \in RegisterBodies, e \in StoreErrors :
            register_user_commit_raises(user_data, e)
    \/ \E a \in IssuedBearers, user_update \in UpdateBodies, e \in StoreErrors :
            update_user_profile_commit_raises(a, user_update, e)
    \/ \E a \in IssuedBearers, cur \in Passwords, new \in {"Passw0rd!"}, e \in StoreErrors :
            change_password_commit_raises(a, cur, new, e)
    \/ \E a \in IssuedBearers, e \in StoreErrors : delete_user_account_commit_raises(a, e)

SpecCommit == Init /\ [][NextCommit]_vars

---------------------------------------------------------------------------
(* A food diary over days: accounts log meals and read their daily        *)
(* summary; a day passes between requests.                                *)

\* a snack for which predict_food returns a calorie string without a number
SnackForm ==
    [meal_type |-> " SNACK", content_type |-> Some("image/jpeg"), save_to_db |-> TRUE,
     ready |-> TRUE, prediction |-> [food_name |-> "salad", calories |-> <<>>]]

\* the target_date parameters: none, two days, one of them written without
\* the zero, and a date in another format
TargetDates == {None, Some("1970-01-01"), Some("1970-1-2"), Some("02/01/1970")}

\* a day passes
TickDay ==
    /\ today(now) < MaxDays
    /\ now' = now + 1440
    /\ UNCHANGED <<uploads, food_logs, daily_summaries, users, tokens, pending, resp>>

NextDiary ==
    \/ \E salt \in Salts :
            \/ register_user(UserCreate("amy", "a@x.com", "Secret123!", UserCreateDefaults), salt)
            \/ register_user(UserCreate("bob", "b@x.com", "Secret123!", UserCreateDefaults), salt)
    \/ \E u \in Usernames : login_user(u, "Secret123!")
    \/ \E a \in IssuedBearers, form \in {GoodForm, SnackForm} : classify_food(a, form)
    \/ \E a \in IssuedBearers, target_date \in TargetDates :
            get_daily_calorie_summary(a, target_date)
    \/ TickDay

SpecDiary == Init /\ [][NextDiary]_vars

---------------------------------------------------------------------------
(* Two accounts that log and delete meals over a store that can fail      *)
(* while a daily summary is updated                                       *)

NextSummary ==
    \/ \E salt \in Salts :
            \/ register_user(UserCreate("amy", "a@x.com", "Secret123!", UserCreateDefaults), salt)
            \/ register_user(UserCreate("bob", "b@x.com", "Secret123!", UserCreateDefaults), salt)
    \/ \E u \in Usernames : login_user(u, "Secret123!")
    \/ \E a \in IssuedBearers, form \in {GoodForm, SnackForm} : classify_food(a, form)
    \/ \E a \in IssuedBearers, food_log_id \in 1..MaxLogs : delete_food_entry(a, food_log_id)
    \/ \E a \in IssuedBearers : classify_food_summary_raises(a, GoodForm)
    \/ \E a \in IssuedBearers, food_log_id \in 1..MaxLogs :
            delete_food_entry_summary_raises(a, food_log_id)

SpecSummary == Init /\ [][NextSummary]_vars

---------------------------------------------------------------------------
(* One account whose classify and delete-food-entry requests run in       *)
(* several workers over the same store: update_daily_summary in two steps *)

NextSummaryRace ==
    \/ \E salt \in Salts :
            register_user(UserCreate("amy", "a@x.com", "Secret123!", UserCreateDefaults), salt)
    \/ login_user("amy", "Secret123!")
    \/ \E c \in Clients, a \in IssuedBearers, form \in {GoodForm, SnackForm} :
            classify_food_first(c, a, form)
    \/ \E c \in Clients, a \in IssuedBearers, food_log_id \in 1..MaxLogs :
            delete_food_entry_first(c, a, food_log_id)
    \/ \E c \in Clients : update_daily_summary_rest(c)

SpecSummaryRace == Init /\ [][NextSummaryRace]_vars

---------------------------------------------------------------------------
(* One account that sends classify requests of every kind *)

\* what predict_food returns: the pizza of GoodForm, or an error
Predictions ==
    {GoodForm.prediction,
     [error |-> "Failed to process image", food_name |-> "Unknown",
      calories |-> <<>>]}

\* the forms: meal types that are valid after normalisation or not, files
\* that say they are images or not or say nothing, the model loaded or not
ClassifyForms ==
    [meal_type : {"Lunch ", "brunch"},
     content_type : {Some("image/png"), Some("text/plain"), None},
     save_to_db : BOOLEAN,
     ready : BOOLEAN,
     prediction : Predictions]

NextClassify ==
    \/ \E salt \in Salts :
            register_user(UserCreate("amy", "a@x.com", "Secret123!", UserCreateDefaults), salt)
    \/ login_user("amy", "Secret123!")
    \/ \E a \in IssuedBearers \cup {None, Some(Garbage)}, form \in ClassifyForms :
            classify_food(a, form)

SpecClassify == Init /\ [][NextClassify]_vars

---------------------------------------------------------------------------
(* Two accounts and every route: what is left of an account once it is    *)
(* deactivated                                                            *)

NextLifecycle ==
    \/ \E salt \in Salts :
            \/ register_user(UserCreate("amy", "a@x.com", "Secret123!", UserCreateDefaults), salt)
            \/ register_user(UserCreate("bob", "b@x.com", "Secret123!", UserCreateDefaults), salt)
    \/ \E u \in Usernames : login_user(u, "Secret123!")
    \/ \E a \in IssuedBearers, salt \in Salts :
            update_user_profile(a, UserCreate("amy", "a@x.com", "hunter2", UserCreateDefaults),
                                salt)
    \/ \E a \in IssuedBearers, salt \in Salts :
            change_password(a, "hunter2", "Secret123!", salt)
    \/ \E a \in IssuedBearers : refresh_access_token(a)
    \/ \E a \in IssuedBearers : delete_user_account(a)
    \/ \E a \in IssuedBearers : classify_food(a, GoodForm)
    \/ \E a \in IssuedBearers : get_daily_calorie_summary(a, None)
    \/ \E a \in IssuedBearers, food_log_id \in 1..MaxLogs : delete_food_entry(a, food_log_id)

SpecLifecycle == Init /\ [][NextLifecycle]_vars

---------------------------------------------------------------------------
(* One account that holds the token pair of create_user_tokens, over a    *)
(* week                                                                   *)

\* a call of create_user_tokens for the row of a username; the client
\* keeps both tokens
issue_user_tokens(username) ==
    LET found == RowsByUsername(users, username)
        pair == create_user_tokens(users[Min(found)], now)
    IN  /\ found # {}
        /\ tokens' = {[token |-> pair.access_token, iat |-> now,
                       ttl |-> Some(ACCESS_TOKEN_EXPIRE_MINUTES)],
                      [token |-> pair.refresh_token, iat |-> now,
                       ttl |-> Some(REFRESH_TOKEN_EXPIRE_MINUTES)]}
        /\ resp' = Response("create-user-tokens", [username |-> username],
                            0, "", "", Some(pair))
        /\ UNCHANGED <<uploads, food_logs, daily_summaries, users, now, pending>>

\* a day of the week passes
TickWeekDay ==
    /\ today(now) < MaxWeekDays
    /\ now' = now + 1440
    /\ UNCHANGED <<uploads, food_logs, daily_summaries, users, tokens, pending, resp>>

\* a classify request that passes the guard and fails the first check
BadMealForm == [GoodForm EXCEPT !.meal_type = "brunch"]

NextKinds ==
    \/ \E salt \in Salts :
            register_user(UserCreate("amy", "a@x.com", "Secret123!", UserCreateDefaults), salt)
    \/ issue_user_tokens("amy")
    \/ \E a \in IssuedBearers : get_me(a)
    \/ \E a \in IssuedBearers, salt \in Salts :
            update_user_profile(a, UserCreate("amy", "a@x.com", "hunter2", UserCreateDefaults),
                                salt)
    \/ \E a \in IssuedBearers, salt \in Salts :
            change_password(a, "hunter2", "Secret123!", salt)
    \/ \E a \in IssuedBearers : refresh_access_token(a)
    \/ \E a \in IssuedBearers : delete_user_account(a)
    \/ \E a \in IssuedBearers : classify_food(a, BadMealForm)
    \/ \E a \in IssuedBearers : delete_food_entry(a, 1)
    \/ \E d \in ClockSteps : Tick(d)
    \/ TickWeekDay

SpecKinds == Init /\ [][NextKinds]_vars

---------------------------------------------------------------------------
(* Properties *)

\* In Spec every step that leaves the clock alone is one request, and resp'
\* holds that request and the response it got.
Request(op) == now' = now /\ resp'.op = op

ProtectedOps == {"me", "update", "change-password", "refresh-token", "delete-account"}

\* the token is a JWT signed with the service's signing key
SignedByService(token) ==
    token.form = "jws" /\ token.sig = Sign(token.payload, SECRET_KEY)

\* its expiry instant is still in the future
Unexpired(token) ==
    "exp" \in DOMAIN token.payload /\ token.payload.exp > now

\* its subject is the username of an account whose active flag is true
SubjectActive(token) ==
    /\ "sub" \in DOMAIN token.payload
    /\ \E i \in 1..Len(users) :
          users[i].username = token.payload.sub /\ users[i].is_active

\* the account with this id has been deactivated
Deactivated(id) ==
    \E i \in 1..Len(users) : users[i].id = id /\ ~users[i].is_active

\* C1: a request to a protected route whose token is not signed with the
\* service's key, or is expired, or whose subject is not an existing active
\* account (or that carries no token) is answered 401 and its handler does
\* not run: no row and no issued token changes.
C1_GuardAcceptsOnlyValidTokens ==
    [][(/\ \E op \in ProtectedOps : Request(op)
        /\ LET a == resp'.req.authorization
           IN  \/ a = None
               \/ ~SignedByService(a[1])
               \/ ~Unexpired(a[1])
               \/ ~SubjectActive(a[1]))
          => (/\ resp'.status = 401
              /\ resp'.body = None
              /\ users' = users
              /\ tokens' = tokens)]_vars

\* C1 witness: a correctly signed, unexpired token of a deactivated account
\* was refused by a protected route.
C1_Witness ==
    /\ resp.op \in ProtectedOps
    /\ resp.status = 401
    /\ resp.req.authorization # None
    /\ resp.req.authorization[1] \in IssuedTokens
    /\ SignedByService(resp.req.authorization[1])
    /\ Unexpired(resp.req.authorization[1])
    /\ ~SubjectActive(resp.req.authorization[1])

\* C2: in every state, every issued token whose account has been deactivated
\* is refused by the guard of the protected routes with 401, expired or not.
C2_DeactivatedAccountTokensRejected ==
    \A tok \in IssuedTokens :
        Deactivated(tok.payload.user_id)
        => (/\ ~Authenticate(Some(tok), users, now).ok
            /\ Authenticate(Some(tok), users, now).error.status = 401)

\* C2 witness: after delete-account succeeded, a still-unexpired token issued
\* to that account before was presented and answered 401.
C2_Witness ==
    /\ resp.op = "me"
    /\ resp.status = 401
    /\ resp.req.authorization # None
    /\ resp.req.authorization[1] \in IssuedTokens
    /\ Unexpired(resp.req.authorization[1])
    /\ Deactivated(resp.req.authorization[1].payload.user_id)

\* C3: a register request whose username is already in the table, or whose
\* email is, is answered 400 and adds no row, whatever the other field is and
\* whether the existing account is active or not.
C3_RegisterRejectsDuplicates ==
    [][(/\ Request("register")
        /\ \/ \E i \in 1..Len(users) : users[i].username = resp'.req.username
           \/ \E i \in 1..Len(users) : users[i].email = resp'.req.email)
          => (resp'.status = 400 /\ resp'.body = None /\ users' = users)]_vars

\* C3 witness: a register request with a fresh username and the email of a
\* deactivated account was answered 400.
C3_Witness ==
    /\ resp.op = "register"
    /\ resp.status = 400
    /\ \A i \in 1..Len(users) : users[i].username # resp.req.username
    /\ \E i \in 1..Len(users) :
          users[i].email = resp.req.email /\ ~users[i].is_active

\* C4: no two rows of the users table share a username and no two share an
\* email, active or not, however register requests interleave with each
\* other and with update-profile, change-password and delete-account.
C4_UsernameAndEmailUnique ==
    \A i, j \in 1..Len(users) :
        i # j => (users[i].username # users[j].username /\ users[i].email # users[j].email)

\* C4 witness: two accounts exist, one deactivated, and a register request
\* that had passed its existence checks was refused at insert time.
C4_Witness ==
    /\ Len(users) = 2
    /\ \E i \in 1..Len(users) : ~users[i].is_active
    /\ resp.op = "register"
    /\ resp.status = 500

\* C5: a register request never ends in a server error: one that loses the
\* race and hits the uniqueness constraint at insert time is answered 400
\* like a sequential duplicate.
C5_RaceLoserGetsDuplicateIdentity ==
    resp.op = "register" => resp.status \in {200, 400}

\* C5, the part the code keeps: of the register requests that passed the
\* checks with the same username, one row is created.
C5_OneAccountPerUsername ==
    \A u \in Usernames : Cardinality(RowsByUsername(users, u)) <= 1

\* C6: a login with an unknown username and a login with a wrong password get
\* the same response: 401, the same detail and headers, no body, no token.
C6_LoginFailureIndistinguishable ==
    [][(/\ Request("login")
        /\ \/ \A i \in 1..Len(users) : users[i].username # resp'.req.username
           \/ \E i \in 1..Len(users) :
                 /\ users[i].username = resp'.req.username
                 /\ ~verify_password(users[i], resp'.req.password))
          => (/\ resp' = [op |-> "login", req |-> resp'.req,
                          status |-> 401, detail |-> "Incorrect username or password",
                          headers |-> "WWW-Authenticate: Bearer", body |-> None]
              /\ tokens' = tokens)]_vars

\* C6 witness: a login for an existing account with a wrong password was
\* answered 401.
C6_Witness ==
    /\ resp.op = "login"
    /\ resp.status = 401
    /\ \E i \in 1..Len(users) :
          /\ users[i].username = resp.req.username
          /\ ~verify_password(users[i], resp.req.password)

\* C7: a login for a deactivated account issues no token: with the right
\* password it is answered 400 "Inactive user", with a wrong one 401.
C7_NoLoginForDeactivated ==
    [][(/\ Request("login")
        /\ \E i \in 1..Len(users) :
              users[i].username = resp'.req.username /\ ~users[i].is_active)
          => (/\ tokens' = tokens
              /\ resp'.body = None
              /\ \A i \in 1..Len(users) :
                    users[i].username = resp'.req.username =>
                        IF verify_password(users[i], resp'.req.password)
                        THEN resp'.status = 400 /\ resp'.detail = "Inactive user"
                        ELSE resp'.status = 401)]_vars

\* C7 witness: a login with the right password of a deactivated account was
\* answered 400.
C7_Witness ==
    /\ resp.op = "login"
    /\ resp.status = 400
    /\ \E i \in 1..Len(users) :
          /\ users[i].username = resp.req.username
          /\ verify_password(users[i], resp.req.password)
          /\ ~users[i].is_active

\* what holds while the last response is a successful registration: a login
\* with the registered username and password is answered 200 with a bearer
\* token signed by the service for that username and account id; GET me with
\* that token resolves to that account; a login with another password gets 401.
C8_AfterRegister ==
    (resp.op = "register" /\ resp.status = 200) =>
        LET u == resp.req.username
            id == resp.body[1].id
            login == LoginResponse(users, u, resp.req.password, now)
        IN  /\ resp.body[1].username = u
            /\ login.status = 200
            /\ login.body # None
            /\ login.body[1].token_type = "bearer"
            /\ login.body[1].user_id = id
            /\ login.body[1].username = u
            /\ SignedByService(login.body[1].access_token)
            /\ login.body[1].access_token.payload.sub = u
            /\ login.body[1].access_token.payload.user_id = id
            /\ LET auth == Authenticate(Some(login.body[1].access_token), users, now)
               IN  /\ auth.ok
                   /\ UserResponse(users[auth.user]).username = u
                   /\ UserResponse(users[auth.user]).id = id
            /\ \A q \in Passwords \ {resp.req.password} :
                  LoginResponse(users, u, q, now).status = 401

C9_TimeToLive(issued) == IF issued.ttl = None THEN 30 ELSE issued.ttl[1]

\* C9: a token issued at time iat with time-to-live d carries the expiry
\* iat + d, verifies to its username and account id at every clock time
\* before iat + d, and is Invalid at every clock time after iat + d.
C9_TokenLifetime ==
    \A issued \in tokens :
        {"sub", "user_id"} \subseteq DOMAIN issued.token.payload =>
            /\ issued.token.payload.exp = issued.iat + C9_TimeToLive(issued)
            /\ now < issued.iat + C9_TimeToLive(issued) =>
                  verify_token(issued.token, now) =
                      [username |-> issued.token.payload.sub,
                       user_id |-> issued.token.payload.user_id]
            /\ now > issued.iat + C9_TimeToLive(issued) =>
                  verify_token(issued.token, now) = Invalid

\* C9 witness: a token issued with the default time-to-live was verified more
\* than 30 minutes later and found Invalid.
C9_Witness ==
    /\ resp.op = "verify"
    /\ resp.body = Some(Invalid)
    /\ \E issued \in tokens :
          /\ issued.token = resp.req.token
          /\ issued.ttl = None
          /\ {"sub", "user_id"} \subseteq DOMAIN issued.token.payload
          /\ now > issued.iat + 30

\* C10: verify_token raises on no input: its result is the username and
\* account id, or Invalid; and it is that one Invalid for a malformed token,
\* for a token with an altered signature segment, for an expired token and
\* for a correctly signed token without the sub or the user_id claim.
C10_VerifyTokenTotal ==
    /\ \A tok \in VerifyInputs :
          \/ verify_token(tok, now) = Invalid
          \/ DOMAIN verify_token(tok, now) = {"username", "user_id"}
    /\ verify_token(Garbage, now) = Invalid
    /\ \A tok \in IssuedTokens :
          /\ verify_token(TamperSignature(tok), now) = Invalid
          /\ tok.payload.exp <= now => verify_token(tok, now) = Invalid
          /\ ~({"sub", "user_id"} \subseteq DOMAIN tok.payload)
                => verify_token(tok, now) = Invalid

\* C10 witness: a token that verifies was presented with one character of
\* its signature changed, and the answer was Invalid.
C10_Witness ==
    /\ resp.op = "verify"
    /\ resp.body = Some(Invalid)
    /\ \E tok \in IssuedTokens :
          /\ resp.req.token = TamperSignature(tok)
          /\ verify_token(tok, now) # Invalid

\* C11: the guard refuses with one and the same response, 401 "Could not
\* validate credentials" with the WWW-Authenticate header and no body, when
\* the token fails verification, when it verifies but its username has no
\* row, and when it verifies but the account is deactivated.
C11_GuardRejectionsIndistinguishable ==
    [][(/\ Request("me")
        /\ resp'.req.authorization # None
        /\ LET token_data == verify_token(resp'.req.authorization[1], now)
           IN  \/ token_data = Invalid
               \/ /\ token_data # Invalid
                  /\ RowsByUsername(users, token_data.username) = {}
               \/ /\ token_data # Invalid
                  /\ \E i \in RowsByUsername(users, token_data.username) :
                        ~users[i].is_active)
          => resp' = [op |-> "me", req |-> resp'.req, status |-> 401,
                      detail |-> "Could not validate credentials",
                      headers |-> "WWW-Authenticate: Bearer", body |-> None]]_vars

\* C11 witness: a token that verifies but whose username has no row was
\* refused while the table holds a deactivated account whose own unexpired
\* token is refused too.
C11_Witness ==
    /\ resp.op = "me"
    /\ resp.status = 401
    /\ verify_token(resp.req.authorization[1], now) # Invalid
    /\ RowsByUsername(users, verify_token(resp.req.authorization[1], now).username) = {}
    /\ \E tok \in IssuedTokens :
          /\ verify_token(tok, now) # Invalid
          /\ Deactivated(tok.payload.user_id)
          /\ ~Authenticate(Some(tok), users, now).ok

\* C12: a PUT /auth/me that is answered 200 leaves every profile field that
\* is absent from the body, or null in it, at its stored value, and sets every
\* field the body supplies to the supplied value.
C12_PartialUpdate ==
    [][(Request("update") /\ resp'.status = 200)
          => LET body == resp'.req.body
                 id == resp'.body[1].id
             IN  \A k \in ProfileFields :
                    users'[id][k] =
                        IF k \in DOMAIN body /\ body[k] # None THEN body[k] ELSE users[id][k]]_vars

\* C12, the request of the example: a body that supplies the age alone is
\* answered 200 when its token is accepted.
C12_AgeAloneAccepted ==
    [][(/\ Request("update")
        /\ DOMAIN resp'.req.body = {"age"}
        /\ Authenticate(resp'.req.authorization, users, now).ok)
          => resp'.status = 200]_vars

\* C12, the part the code keeps: a field that is null in the body keeps its
\* stored value and a field the body supplies takes the supplied value.
C12_NullKeepsSuppliedTakes ==
    [][(Request("update") /\ resp'.status = 200)
          => LET body == resp'.req.body
                 id == resp'.body[1].id
             IN  \A k \in ProfileFields \cap DOMAIN body :
                    users'[id][k] = IF body[k] # None THEN body[k] ELSE users[id][k]]_vars

\* the three conditions of the claim on a change-password request for a row
C13_Conditions(user, current_password, new_password) ==
    /\ verify_password(user, current_password)
    /\ new_password # current_password
    /\ Len(new_password) >= 8

\* C13: a change-password request with an accepted token succeeds if and
\* only if the current password matches the stored verifier, the new password
\* differs from the current one and the new password has at least 8
\* characters; otherwise it is answered 400 and no row changes.
C13_ChangePasswordIff ==
    [][(/\ Request("change-password")
        /\ Authenticate(resp'.req.authorization, users, now).ok)
          => LET id == Authenticate(resp'.req.authorization, users, now).user
             IN  IF C13_Conditions(users[id], resp'.req.current_password,
                                   resp'.req.new_password)
                 THEN /\ resp'.status = 200
                      /\ verify_password(users'[id], resp'.req.new_password)
                 ELSE /\ resp'.status = 400
                      /\ users' = users]_vars

\* C13, the part the code keeps: the same for new passwords of at most 72
\* characters.
C13_ChangePasswordIffShort ==
    [][(/\ Request("change-password")
        /\ Authenticate(resp'.req.authorization, users, now).ok
        /\ Len(resp'.req.new_password) <= BCRYPT_MAX_BYTES)
          => LET id == Authenticate(resp'.req.authorization, users, now).user
             IN  IF C13_Conditions(users[id], resp'.req.current_password,
                                   resp'.req.new_password)
                 THEN /\ resp'.status = 200
                      /\ verify_password(users'[id], resp'.req.new_password)
                 ELSE /\ resp'.status = 400
                      /\ users' = users]_vars

MutatingOps == {"update", "change-password", "delete-account"}

\* C14: a row that an update-profile, change-password or delete-account
\* request changes is the row of the account the request's token names: the
\* rows of all other accounts keep every field.
C14_OnlyOwnRowChanges ==
    [][\A i \in 1..Len(users) :
          (resp'.op \in MutatingOps /\ users'[i] # users[i])
            => /\ resp'.status = 200
               /\ resp'.req.authorization # None
               /\ users[i].username = resp'.req.authorization[1].payload.sub
               /\ users[i].id = resp'.req.authorization[1].payload.user_id
               /\ \A j \in 1..Len(users) : j # i => users'[j] = users[j]]_vars

\* C14 witness: with two accounts in the table, the first had set its
\* password to "hunter2"; then the second changed its own password with
\* change-password, and the first still has "hunter2".
C14_Witness ==
    /\ Len(users) = 2
    /\ resp.op = "change-password"
    /\ resp.status = 200
    /\ resp.req.authorization[1].payload.user_id = 2
    /\ verify_password(users[2], resp.req.new_password)
    /\ ~verify_password(users[1], resp.req.new_password)
    /\ verify_password(users[1], "hunter2")

\* C15: a delete-account request that succeeds sets the is_active flag of
\* the caller's row to false and changes nothing else: the table keeps its
\* rows, the caller's row keeps its id, username, email, password hash and
\* profile, and the food_logs and daily_calorie_summary tables are unchanged.
C15_DeleteOnlyFlipsActive ==
    [][(Request("delete-account") /\ resp'.status = 200)
          => /\ Len(users') = Len(users)
             /\ \A i \in 1..Len(users) :
                   users'[i] =
                       IF users[i].username = resp'.req.authorization[1].payload.sub
                       THEN [users[i] EXCEPT !.is_active = FALSE]
                       ELSE users[i]
             /\ food_logs' = food_logs
             /\ daily_summaries' = daily_summaries]_vars

\* C15 witness: an account that owns a food log and a daily summary has
\* deactivated itself, and another account owns a food log too.
C15_Witness ==
    /\ resp.op = "delete-account"
    /\ resp.status = 200
    /\ LET id == resp.req.authorization[1].payload.user_id
       IN  /\ Deactivated(id)
           /\ \E log \in food_logs : log.user_id = id
           /\ \E summary \in daily_summaries :
                 summary.user_id = id /\ summary.total_calories > 0
           /\ \E log \in food_logs : log.user_id # id

\* C16: no request to the account routes or the food routes removes a row
\* of the users table or changes its id or its username: every row of a
\* state is in the next state, at the same place, with the same id and
\* username.
C16_AccountsNeverDeleted ==
    [][/\ Len(users') >= Len(users)
       /\ \A i \in 1..Len(users) :
             /\ users'[i].id = users[i].id
             /\ users'[i].username = users[i].username]_vars

\* C16 witness: the first account deactivated itself and the second then
\* deleted a food log of its own; both rows are in the table with their ids.
C16_Witness ==
    /\ resp.op = "delete-food-entry"
    /\ resp.status = 200
    /\ Len(users) = 2
    /\ users[1].id = 1 /\ ~users[1].is_active
    /\ users[2].id = 2 /\ users[2].username = resp.req.authorization[1].payload.sub

\* C17: in every state, whatever requests were served since it was issued
\* (logins, refreshes, profile updates, password changes), every issued
\* token whose account is active is accepted by the guard, for its own
\* account, at every clock time before its time of issue plus 30 minutes.
C17_TokensNotRevoked ==
    \A issued \in tokens :
        (SubjectActive(issued.token) /\ now < issued.iat + 30)
          => LET auth == Authenticate(Some(issued.token), users, now)
             IN  /\ auth.ok
                 /\ users[auth.user].username = issued.token.payload.sub
                 /\ users[auth.user].id = issued.token.payload.user_id

\* C17 witness: 15 minutes after a token was issued, and after a later token
\* was issued for the same account, the older token was used to change the
\* password, and the guard still accepts it.
C17_Witness ==
    /\ resp.op = "change-password"
    /\ resp.status = 200
    /\ \E old \in tokens, new \in tokens :
          /\ old.iat < new.iat
          /\ now > old.iat
          /\ resp.req.authorization = Some(old.token)
          /\ Authenticate(Some(old.token), users, now).ok

\* the guard accepts the Authorization header of a request in this state
C18_Accepted(authorization) ==
    /\ authorization # None
    /\ SignedByService(authorization[1])
    /\ Unexpired(authorization[1])
    /\ SubjectActive(authorization[1])

\* C18: a refresh-token request with a token the guard accepts for account A
\* is answered 200 with a bearer token signed by the service whose sub and
\* user_id are A's username and id and whose exp is the time of the call plus
\* 30 minutes, and no table changes; with any other Authorization header it
\* is answered 401 with no body, no token is issued and no table changes.
C18_RefreshToken ==
    [][Request("refresh-token")
          => /\ users' = users
             /\ food_logs' = food_logs
             /\ daily_summaries' = daily_summaries
             /\ IF C18_Accepted(resp'.req.authorization)
                THEN /\ resp'.status = 200
                     /\ resp'.body[1].token_type = "bearer"
                     /\ SignedByService(resp'.body[1].access_token)
                     /\ resp'.body[1].access_token.payload.exp = now + 30
                     /\ \E i \in 1..Len(users) :
                           /\ users[i].username = resp'.req.authorization[1].payload.sub
                           /\ resp'.body[1].access_token.payload.sub = users[i].username
                           /\ resp'.body[1].access_token.payload.user_id = users[i].id
                           /\ resp'.body[1].username = users[i].username
                           /\ resp'.body[1].user_id = users[i].id
                ELSE /\ resp'.status = 401
                     /\ resp'.body = None
                     /\ tokens' = tokens]_vars

\* C18 witness: 15 minutes after its login the second account refreshed its
\* token and got a token for itself that expires 30 minutes later.
C18_Witness ==
    /\ resp.op = "refresh-token"
    /\ resp.status = 200
    /\ now = 15
    /\ resp.req.authorization[1].payload.exp = 30
    /\ resp.req.authorization[1].payload.user_id = 2
    /\ resp.body[1].access_token.payload.user_id = 2
    /\ resp.body[1].access_token.payload.exp = 45

\* the password a step sets and the row it sets it on: None, or Some of
\* the two, for a successful register, change-password, or update-profile
\* with a password
C19_PasswordSet ==
    IF resp'.op = "register" /\ resp'.status = 200
    THEN Some([row |-> resp'.body[1].id, password |-> resp'.req.password])
    ELSE IF resp'.op = "change-password" /\ resp'.status = 200
    THEN Some([row |-> resp'.req.authorization[1].payload.user_id,
               password |-> resp'.req.new_password])
    ELSE IF resp'.op = "update" /\ resp'.status = 200 /\ resp'.req.user_update.password # ""
    THEN Some([row |-> resp'.body[1].id, password |-> resp'.req.user_update.password])
    ELSE None

\* verify_password on every row after a step, for the passwords of a set:
\* on the row whose password the step set it is true exactly for the password
\* set, on every other row it is what it was before the step; and after a
\* successful change-password a login with the old password is answered 401
\* and a login with the new password 200
C19_Step(passwords) ==
    /\ \A i \in 1..Len(users'), p \in passwords :
          /\ verify_password(users'[i], p) \in BOOLEAN
          /\ IF C19_PasswordSet # None /\ C19_PasswordSet[1].row = i
             THEN verify_password(users'[i], p) <=> (p = C19_PasswordSet[1].password)
             ELSE verify_password(users'[i], p) <=> verify_password(users[i], p)
    /\ (resp'.op = "change-password" /\ resp'.status = 200
          /\ resp'.req.current_password \in passwords
          /\ resp'.req.new_password \in passwords)
        => LET u == resp'.req.authorization[1].payload.sub
           IN  /\ LoginResponse(users', u, resp'.req.current_password, now).status = 401
               /\ LoginResponse(users', u, resp'.req.new_password, now).status = 200

\* C19: after every password-setting operation (register, successful
\* change-password, update-profile with a password) verify_password(p) is
\* true if and only if p is the password set, and it stays so until the
\* next such operation; it is a boolean for every p; after a successful
\* change-password the old password no longer logs in and the new one does.
C19_VerifyIffLastSet ==
    [][C19_Step(PolicyPasswords)]_vars

\* C19, the part the code keeps: the same among passwords of at most 72
\* characters.
C19_VerifyIffLastSetShort ==
    [][(C19_PasswordSet # None => Len(C19_PasswordSet[1].password) <= BCRYPT_MAX_BYTES)
          => C19_Step({p \in PolicyPasswords : Len(p) <= BCRYPT_MAX_BYTES})]_vars

\* the text sub occurs in the text s
Contains(s, sub) ==
    \E i \in 1..(Len(s) - Len(sub) + 1) : SubSeq(s, i, i + Len(sub) - 1) = sub

\* the last request is one whose db.commit() raised
C20_CommitRaised(r) ==
    r.op \in {"register", "update", "change-password", "delete-account"}
        /\ "raised" \in DOMAIN r.req

\* C20: a register, update-profile, change-password or delete-account
\* request whose commit fails leaves every table as it was before the
\* request and is answered 500 with a detail that does not hold the text of
\* the store's error.
C20_CommitFailure ==
    [][C20_CommitRaised(resp')
          => /\ users' = users
             /\ food_logs' = food_logs
             /\ daily_summaries' = daily_summaries
             /\ resp'.status = 500
             /\ resp'.body = None
             /\ ~Contains(resp'.detail, resp'.req.raised)]_vars

\* C20, the part the code keeps: the request is rolled back and answered 500.
C20_RolledBack ==
    [][C20_CommitRaised(resp')
          => /\ users' = users
             /\ food_logs' = food_logs
             /\ daily_summaries' = daily_summaries
             /\ resp'.status = 500
             /\ resp'.body = None]_vars

\* C21: the guard of a request changes nothing and gives one answer: a
\* request is refused with 401 exactly when the guard refuses its token in
\* the state and at the clock time of the request; a refused request, and
\* an accepted request to a route that only reads, leave every row of users,
\* food_logs and daily_calorie_summary as it was; and the guard, asked again
\* after the request about the same token, answers as before.
C21_GuardSideEffectFree ==
    [][\A op \in {"classify", "daily-calorie-summary"} :
          Request(op)
            => LET a == resp'.req.authorization
               IN  /\ (resp'.status = 401) <=> ~Authenticate(a, users, now).ok
                   /\ (resp'.status = 401 \/ op = "daily-calorie-summary")
                        => /\ users' = users
                           /\ food_logs' = food_logs
                           /\ daily_summaries' = daily_summaries
                   /\ users' = users
                   /\ Authenticate(a, users', now') = Authenticate(a, users, now)]_vars

\* C21 witness: a token that has expired was refused by the daily summary
\* route while the account it names owns a food log and a summary row.
C21_Witness ==
    /\ resp.op = "daily-calorie-summary"
    /\ resp.status = 401
    /\ resp.req.authorization[1] \in IssuedTokens
    /\ ~Unexpired(resp.req.authorization[1])
    /\ SubjectActive(resp.req.authorization[1])
    /\ \E log \in food_logs : log.user_id = resp.req.authorization[1].payload.user_id
    /\ \E r \in daily_summaries : r.user_id = resp.req.authorization[1].payload.user_id

\* the day a well-formed target_date of the requests names
C22_Day(target_date) ==
    IF target_date = None THEN now \div 1440
    ELSE IF target_date = Some("1970-01-01") THEN 0
    ELSE 1

\* the date of a day as the response writes it
C22_Iso(day) ==
    IF day = 0 THEN "1970-01-01" ELSE IF day = 1 THEN "1970-01-02" ELSE "1970-01-03"

\* C22: a daily-calorie-summary request with a token from login that the
\* guard accepts, for today (no target_date) or for a well-formed date, is
\* answered 200 for the account of the token; its meals hold exactly that
\* account's food logs of that date; its calorie totals are those of that
\* account's summary row for the date, and all 0 when there is no such row;
\* and it reports the account's stored daily calorie goal.
C22_DailySummaryOfCaller ==
    [][(/\ Request("daily-calorie-summary")
        /\ C18_Accepted(resp'.req.authorization)
        /\ resp'.req.target_date \in {None, Some("1970-01-01"), Some("1970-1-2")})
          => LET id == resp'.req.authorization[1].payload.user_id
                 day == C22_Day(resp'.req.target_date)
                 body == resp'.body[1]
                 reported == UNION {body.meals[k] : k \in DOMAIN body.meals}
                 rows == {r \in daily_summaries : r.user_id = id /\ r.date = day}
             IN  /\ resp'.status = 200
                 /\ body.user_id = id
                 /\ body.username = resp'.req.authorization[1].payload.sub
                 /\ body.date = C22_Iso(day)
                 /\ reported = {log \in food_logs : log.user_id = id /\ log.date = day}
                 /\ rows = {} => \A f \in DOMAIN body.summary : body.summary[f] = 0
                 /\ rows # {} => \E r \in rows :
                        \A f \in DOMAIN body.summary : body.summary[f] = r[f]
                 /\ body.user_info.daily_calorie_goal = users[id].daily_calorie_goal]_vars

\* C22 witness: on the second day an account that logged a meal on the
\* first day, while the table holds another log (of the second day or of
\* another account), asked for the first day and got that one log with its
\* calories as the total.
C22_Witness ==
    /\ resp.op = "daily-calorie-summary"
    /\ resp.status = 200
    /\ now \div 1440 = 1
    /\ resp.req.target_date = Some("1970-01-01")
    /\ \E log \in food_logs :
          /\ log.user_id = resp.body[1].user_id
          /\ log.date = 0
          /\ resp.body[1].meals[meal_key(log.meal_type)] = {log}
          /\ resp.body[1].summary.total_calories = log.calories
    /\ \E log \in food_logs : log.date = 1 \/ log.user_id # resp.body[1].user_id

---------------------------------------------------------------------------
(* C23 *)

\* C23: an update-profile request with a non-empty password that the guard
\* accepts is answered 200 and replaces the verifier of the account by the
\* hash of that password, whatever its length and whether or not it is the
\* stored password; the request carries no current password; afterwards a
\* login with the supplied password succeeds and the other rows keep theirs.
C23_UpdateReplacesPassword ==
    [][(Request("update") /\ resp'.req.user_update.password # ""
          /\ C18_Accepted(resp'.req.authorization))
        => LET password == resp'.req.user_update.password
               i == Authenticate(resp'.req.authorization, users, now).user
           IN  /\ DOMAIN resp'.req = {"authorization", "user_update"}
               /\ resp'.status = HTTP_200_OK
               /\ \E salt \in GenSalts :
                      users'[i].hashed_password = hashpw(password, salt)
               /\ verify_password(users'[i], password)
               /\ LoginResponse(users', users'[i].username, password, now').status
                      = HTTP_200_OK
               /\ \A j \in 1..Len(users') :
                      j # i => users'[j] = users[j]]_vars

\* an update-profile request has set a password of seven characters, and
\* that password alone now verifies
C23_Witness ==
    /\ resp.op = "update"
    /\ resp.status = HTTP_200_OK
    /\ resp.req.user_update.password = "hunter2"
    /\ Len(resp.req.user_update.password) < MIN_PASSWORD_LENGTH
    /\ verify_password(users[resp.body[1].id], "hunter2")
    /\ ~verify_password(users[resp.body[1].id], "Secret123!")
    /\ LoginResponse(users, "amy", "hunter2", now).status = HTTP_200_OK

---------------------------------------------------------------------------
(* C24 *)

\* C24: a delete-food-entry request the guard accepts removes only a log of
\* the authenticated user: when no log has the id, or the log with the id
\* belongs to another user, it is answered 404 and no log and no summary
\* changes; otherwise it is answered 200, exactly the one log with that id
\* is removed, and no log and no summary of another user changes.
C24_DeleteOwnEntryOnly ==
    [][(Request("delete-food-entry") /\ C18_Accepted(resp'.req.authorization))
        => LET i == Authenticate(resp'.req.authorization, users, now).user
               own == {log \in food_logs :
                          log.id = resp'.req.food_log_id /\ log.user_id = users[i].id}
           IN  /\ Cardinality(own) <= 1
               /\ IF own = {}
                  THEN /\ resp'.status = 404
                       /\ food_logs' = food_logs
                       /\ daily_summaries' = daily_summaries
                  ELSE /\ resp'.status = HTTP_200_OK
                       /\ food_logs' = food_logs \ own
                       /\ Cardinality(food_logs') = Cardinality(food_logs) - 1
                       /\ {r \in daily_summaries' : r.user_id # users[i].id}
                             = {r \in daily_summaries : r.user_id # users[i].id}]_vars

\* a user asked to delete the entry of another user and was answered 404;
\* the entry and its summary are still there
C24_Witness ==
    /\ resp.op = "delete-food-entry"
    /\ resp.status = 404
    /\ \E log \in food_logs :
          /\ log.id = resp.req.food_log_id
          /\ log.user_id # resp.req.authorization[1].payload.user_id
          /\ \E r \in daily_summaries :
                r.user_id = log.user_id /\ r.total_calories = log.calories

---------------------------------------------------------------------------
(* C25 *)

\* the sum of the calories of the logs of a user on a date for a meal type
C25_Sum(user_id, target_date, meal_type) ==
    SumCalories({log \in food_logs : /\ log.user_id = user_id
                                      /\ log.date = target_date
                                      /\ log.meal_type = meal_type})

\* C25: between requests every DailyCalorieSummary row is consistent with the
\* food logs: its four meal fields are the sums of the calories of the logs
\* of its user on its date for that meal type, and its total is the sum of
\* the four fields; also when the summary update failed after the log change
\* was committed.
C25_SummariesConsistent ==
    \A r \in daily_summaries :
        /\ r.breakfast_calories = C25_Sum(r.user_id, r.date, "breakfast")
        /\ r.lunch_calories = C25_Sum(r.user_id, r.date, "lunch")
        /\ r.dinner_calories = C25_Sum(r.user_id, r.date, "dinner")
        /\ r.snack_calories = C25_Sum(r.user_id, r.date, "snack")
        /\ r.total_calories = r.breakfast_calories + r.lunch_calories
                                + r.dinner_calories + r.snack_calories

---------------------------------------------------------------------------
(* C26 *)

\* C26: in every reachable state there is at most one DailyCalorieSummary
\* row per user and date, also when the requests of one user for one date
\* interleave between the look-up and the create of update_daily_summary.
C26_OneSummaryPerUserDate ==
    \A r, q \in daily_summaries :
        (r.user_id = q.user_id /\ r.date = q.date) => r = q

---------------------------------------------------------------------------
(* C27 *)

\* a classify step stores nothing: no file, no log, no summary
C27_NothingStored ==
    /\ uploads' = uploads
    /\ food_logs' = food_logs
    /\ daily_summaries' = daily_summaries

\* C27: a classify request the guard accepts is rejected before anything is
\* stored when, in this order, its normalised meal type is invalid (400),
\* the model is not loaded (503), or its file is not an image (400); a
\* request that is answered 200 with save_to_db stores exactly one log, with
\* the normalised meal type and the id of the authenticated user.
C27_ClassifyRejectsInOrder ==
    [][(Request("classify") /\ C18_Accepted(resp'.req.authorization))
        => LET form == resp'.req.form
               user_id == resp'.req.authorization[1].payload.user_id
           IN  IF form.meal_type = "brunch"
               THEN /\ resp'.status = HTTP_400_BAD_REQUEST
                    /\ SubSeq(resp'.detail, 1, 17) = "Invalid meal_type"
                    /\ C27_NothingStored
               ELSE IF ~form.ready
               THEN /\ resp'.status = 503
                    /\ C27_NothingStored
               ELSE IF form.content_type \in {None, Some("text/plain")}
               THEN /\ resp'.status = HTTP_400_BAD_REQUEST
                    /\ resp'.detail = "File must be an image"
                    /\ C27_NothingStored
               ELSE /\ resp'.status \in {HTTP_200_OK, HTTP_500_INTERNAL_SERVER_ERROR}
                    /\ uploads' = uploads + 1
                    /\ IF resp'.status = HTTP_200_OK /\ form.save_to_db
                       THEN \E log \in food_logs' :
                               /\ log \notin food_logs
                               /\ food_logs' = food_logs \cup {log}
                               /\ form.meal_type = "Lunch "
                               /\ log.meal_type = "lunch"
                               /\ log.user_id = user_id
                               /\ log.id = resp'.body[1].food_log_id[1]
                       ELSE food_logs' = food_logs]_vars

\* a request whose model is not loaded and whose file is no image was
\* answered 503, after another request had stored a log and a file
C27_Witness ==
    /\ resp.op = "classify"
    /\ resp.status = 503
    /\ resp.req.form.meal_type = "Lunch "
    /\ resp.req.form.content_type = Some("text/plain")
    /\ ~resp.req.form.ready
    /\ uploads = 1
    /\ Cardinality(food_logs) = 1

---------------------------------------------------------------------------
(* C28 *)

\* C28: deactivation is irreversible: no request (register, login,
\* update-profile, change-password, refresh-token, delete-account, classify,
\* daily-calorie-summary, delete-food-entry) changes any field of an account
\* whose is_active is false, is_active included, or removes its row.
C28_DeactivatedAccountFrozen ==
    [][\A i \in 1..Len(users) :
          ~users[i].is_active
              => /\ i <= Len(users')
                 /\ users'[i] = users[i]]_vars

\* an update-profile request carrying a new password and the token of a
\* deactivated account was refused; the account still has its old password
C28_Witness ==
    /\ resp.op = "update"
    /\ resp.status = HTTP_401_UNAUTHORIZED
    /\ resp.req.authorization # None
    /\ SignedByService(resp.req.authorization[1])
    /\ LET i == resp.req.authorization[1].payload.user_id
       IN  /\ ~users[i].is_active
           /\ resp.req.user_update.password = "hunter2"
           /\ verify_password(users[i], "Secret123!")
           /\ \E log \in food_logs : log.user_id = i

---------------------------------------------------------------------------
(* C29 *)

\* the token with the payload of token and another user_id claim, signed by
\* the service
C29_WithUserId(token, user_id) ==
    jwt_encode([token.payload EXCEPT !.user_id = user_id], SECRET_KEY)

\* C29: the guard resolves the account by the username of the token alone:
\* its answer is the same whatever the user_id claim says; and still, for
\* every token that login or refresh-token issued and that the guard
\* accepts, the account it resolves is the one with the id and the username
\* of the token.
C29_ResolvedAccountIsTokenAccount ==
    \A token \in IssuedTokens :
        /\ \A user_id \in 1..(MaxUsers + 1) :
              get_current_user(C29_WithUserId(token, user_id), users, now)
                  = get_current_user(token, users, now)
        /\ get_current_user(token, users, now).ok
              => LET current_user == users[get_current_user(token, users, now).user]
                 IN  /\ current_user.id = token.payload.user_id
                     /\ current_user.username = token.payload.sub

\* refresh-token has issued a token for the second account, the guard
\* accepts it, and it would accept it with the id of the first account too
C29_Witness ==
    /\ resp.op = "refresh-token"
    /\ resp.status = HTTP_200_OK
    /\ resp.body[1].access_token \in IssuedTokens
    /\ resp.body[1].access_token.payload.user_id = 2
    /\ get_current_user(resp.body[1].access_token, users, now).ok
    /\ get_current_user(C29_WithUserId(resp.body[1].access_token, 1), users, now)
          = [ok |-> TRUE, user |-> 2]

---------------------------------------------------------------------------
(* C30 *)

\* the kept record of the token of an Authorization header
C30_Kept(authorization) ==
    CHOOSE i \in tokens : i.token = authorization[1]

\* C30: the decision of the guard does not depend on the kind marker of a
\* token: on every protected route a token of create_user_tokens is accepted
\* exactly while its account is active and its own lifetime has not run out,
\* 7 days for the token marked refresh and 30 minutes for the access token
\* issued with it.
C30_RefreshKindAccepted ==
    [][(now' = now
          /\ resp'.op \in ProtectedOps \cup {"classify", "delete-food-entry"}
          /\ resp'.req.authorization \in IssuedBearers)
        => LET token == resp'.req.authorization[1]
               lifetime == IF "type" \in DOMAIN token.payload
                              /\ token.payload.type = "refresh"
                           THEN 7 * 24 * 60
                           ELSE 30
               found == RowsByUsername(users, token.payload.sub)
           IN  (resp'.status # HTTP_401_UNAUTHORIZED)
                  <=> /\ found # {}
                      /\ users[Min(found)].is_active
                      /\ now < C30_Kept(resp'.req.authorization).iat + lifetime]_vars

\* more than 30 minutes and less than 7 days after create_user_tokens, a
\* protected route has accepted the refresh token, and the guard refuses
\* the access token issued with it
C30_Witness ==
    /\ resp.op = "me"
    /\ resp.status = HTTP_200_OK
    /\ resp.req.authorization \in IssuedBearers
    /\ "type" \in DOMAIN resp.req.authorization[1].payload
    /\ resp.req.authorization[1].payload.type = "refresh"
    /\ now >= C30_Kept(resp.req.authorization).iat + 6 * 1440
    /\ \E i \in tokens :
          /\ "type" \notin DOMAIN i.token.payload
          /\ i.iat = C30_Kept(resp.req.authorization).iat
          /\ i.token.payload.sub = resp.req.authorization[1].payload.sub
          /\ ~Authenticate(Some(i.token), users, now).ok

============================================================================
